---- MODULE Spec2Model ----
(***************************************************************************)
(* Trackway: the monitoring engine (internal/tracker, MonitorEngine) and   *)
(* the alert consolidator (internal/tracker/alerts.go, AlertManager).      *)
(*                                                                         *)
(* Times are whole seconds.  Target names, addresses and reasons hold no   *)
(* markup characters, so util.HTMLEscape leaves them as they are.          *)
(***************************************************************************)
EXTENDS Integers, Sequences, FiniteSets, TLC

VARIABLES
    now,            \* the clock, in seconds (time.Now)
    notifier,       \* AlertManager.notifier: TRUE when a transport is configured
    pendingDown,    \* AlertManager.pendingDown: target name -> pendingDownAlert
    pendingGroup,   \* AlertManager.pendingGroup: reason -> list of pendingDownGroup
    nextMessageID,  \* the identifier the transport gives to its next message
    phase,          \* "idle", or "sent" right after a SendBatch returned
    lastBatch,      \* the events handed to the SendBatch that returned last
    calls,          \* the transport calls that SendBatch made, in order
    prevDown,       \* pendingDown as it was when that SendBatch started
    prevGroup,      \* pendingGroup as it was when that SendBatch started
    editedBefore,   \* the recoveries that the SendBatch before the last turned
                    \* into a single-target edit, each with the message edited
    store,          \* the target definitions: name -> [Address, Port, Enabled]
    targets,        \* MonitorEngine.targets (targetByName is its index by name)
    maxParallel,    \* MonitorEngine.maxParallel
    cancelled,      \* the run context has been cancelled
    runPC,          \* where Run is
    listing,        \* what the ListTargets of the cycle's syncTargets returned
    snapshot,       \* runChecks: the copied slice of target objects
    probes,         \* runChecks: one task per object of the slice
    eventsCh,       \* runChecks: the buffered channel of events
    appended,       \* the Append calls of the cycle, by target name
    delivered,      \* the batches onEvents was called with in the cycle
    admin,          \* the UpsertTarget and DeleteTarget calls between their
                    \* store write and their return
    handled,        \* the number of UpsertTarget and DeleteTarget calls that
                    \* wrote to the store
    reported,       \* the reason of the last DOWN event that Run handed to the
                    \* consolidator, by target name
    callArgs,       \* the arguments of a call that is looked at on its own:
                    \* <<>> when there is none
    callResult,     \* what the call returned: <<>> before it returns
    auth,           \* the dashboard's authManager: <<>> when there is none
    limiter         \* a rateLimiter: <<>> when there is none

alertState == <<notifier, pendingDown, pendingGroup, nextMessageID, phase,
                lastBatch, calls, prevDown, prevGroup, editedBefore>>

dashboardVars == <<auth, limiter>>

alertVars == <<now, alertState, reported, callArgs, callResult, dashboardVars>>

engineVars == <<store, targets, maxParallel, cancelled, runPC, listing, snapshot,
                probes, eventsCh, appended, delivered, admin, handled>>

vars == <<alertVars, engineVars>>

----------------------------------------------------------------------------
(* Bounds of the model *)

\* the transport hands out the identifiers 1..MaxMessageID and then only
\* fails or returns no identifier
MaxMessageID == 2

\* UpsertTarget and DeleteTarget write to the store at most this often
MaxHandled == 1

----------------------------------------------------------------------------
(* Values *)

\* target names in ascending string order
TargetOrder == <<"a", "b", "c">>

Targets == {TargetOrder[i] : i \in 1..Len(TargetOrder)}

NameRank(name) == CHOOSE i \in 1..Len(TargetOrder) : TargetOrder[i] = name

\* the seconds at which the clock is read: 1 and 31 are exactly one window
\* apart, 0 and 31 are one second more
Times == {0, 1, 31}

DefaultAddress(name) == "host-" \o name

Reasons == {"initial-check", "state-change"}

\* types.go: alertEvent
alertEvent(kind, target, address, port, reason, occurred) ==
    [Kind |-> kind, Target |-> target, Address |-> address, Port |-> port,
     Reason |-> reason, Occurred |-> occurred]

\* types.go: pendingDownAlert
pendingDownAlert(messageID, ev) ==
    [MessageID |-> messageID, DownAt |-> ev.Occurred, Reason |-> ev.Reason,
     Address |-> ev.Address, Port |-> ev.Port]

\* the 30*time.Second that SendBatch passes to applyFastRecoveryEdits
FastRecoveryWindow == 30

----------------------------------------------------------------------------
(* Sequence helpers *)

Range(seq) == {seq[i] : i \in 1..Len(seq)}

RemoveAt(seq, idx) == SubSeq(seq, 1, idx - 1) \o SubSeq(seq, idx + 1, Len(seq))

\* a map without one key (Go's delete)
MapDelete(map, key) == [k \in DOMAIN map \ {key} |-> map[k]]

\* a map with one key set (Go's m[key] = value)
MapPut(map, key, value) ==
    [k \in DOMAIN map \cup {key} |-> IF k = key THEN value ELSE map[k]]

\* the events of a list in ascending order of Target (sort.Slice by Target;
\* the relative order of equal names is kept)
RECURSIVE SortByTarget(_)
SortByTarget(events) ==
    IF events = <<>> THEN <<>>
    ELSE LET least == CHOOSE i \in 1..Len(events) :
                          \A j \in 1..Len(events) :
                              \/ NameRank(events[i].Target) < NameRank(events[j].Target)
                              \/ /\ events[i].Target = events[j].Target
                                 /\ i <= j
         IN  <<events[least]>> \o SortByTarget(RemoveAt(events, least))

----------------------------------------------------------------------------
(* Message texts.  A text is kept as a record of its lines: the header line *)
(* is the string the code writes, the other lines are fields.               *)

\* plausible slip: the minutes are not reduced once there are hours
formatDurationShortAllMinutes(d) ==
    LET seconds == d
    IN  IF seconds < 60 THEN ToString(seconds) \o "s"
        ELSE LET minutes == seconds \div 60
                 secs    == seconds % 60
             IN  IF minutes < 60
                 THEN ToString(minutes) \o "m" \o ToString(secs) \o "s"
                 ELSE ToString(minutes \div 60) \o "h" \o ToString(minutes)
                          \o "m" \o ToString(secs) \o "s"

\* alerts.go: formatDurationShort (d in seconds)
formatDurationShort(d) ==
    LET seconds == d
    IN  IF seconds < 60 THEN ToString(seconds) \o "s"
        ELSE LET minutes == seconds \div 60
                 secs    == seconds % 60
             IN  IF minutes < 60
                 THEN ToString(minutes) \o "m" \o ToString(secs) \o "s"
                 ELSE ToString(minutes \div 60) \o "h" \o ToString(minutes % 60)
                          \o "m" \o ToString(secs) \o "s"

\* the header without the count
SingularHeader(kind, count) == "<b>" \o kind \o "</b>"

\* alerts.go: formatAlertGroup, the header line
GroupHeader(kind, count) ==
    IF count = 1 THEN "<b>" \o kind \o "</b>"
    ELSE "<b>" \o kind \o " x" \o ToString(count) \o "</b>"

\* alerts.go: formatAlertGroup, one "- name (address:port)" line
TargetLine(ev) == [name |-> ev.Target, address |-> ev.Address, port |-> ev.Port]

\* alerts.go: formatAlertGroup
formatAlertGroup(events) ==
    IF Len(events) = 0 THEN [header |-> "", targets |-> <<>>]
    ELSE LET first == events[1]
         IN  [header   |-> GroupHeader(first.Kind, Len(events)),
              reason   |-> first.Reason,
              time_utc |-> first.Occurred,
              targets  |-> [i \in 1..Len(events) |-> TargetLine(events[i])]]

\* alerts.go: formatRecoveredEdit
formatRecoveredEdit(recovered, pending) ==
    LET elapsed  == recovered.Occurred - pending.DownAt
        downtime == IF elapsed < 0 THEN 0 ELSE elapsed
    IN  [header           |-> "<b>DOWN -> RECOVERED</b>",
         reason           |-> recovered.Reason,
         down_at_utc      |-> pending.DownAt,
         recovered_at_utc |-> recovered.Occurred,
         downtime         |-> formatDurationShort(downtime),
         targets          |-> <<TargetLine(recovered)>>]

\* alerts.go: formatGroupedRecoveryEdit, the later of two times
Latest(recovs) ==
    CHOOSE t \in {recovs[i].Occurred : i \in 1..Len(recovs)} :
        \A i \in 1..Len(recovs) : recovs[i].Occurred <= t

\* alerts.go: formatGroupedRecoveryEdit, one target's lines
RecoveredLine(pending, ev) ==
    LET downtime == IF ev.Target \in DOMAIN pending.Targets
                    THEN ev.Occurred - pending.Targets[ev.Target].Occurred
                    ELSE ev.Occurred - pending.DownAt
    IN  [name |-> ev.Target, address |-> ev.Address, port |-> ev.Port,
         recovered_at_utc |-> ev.Occurred,
         downtime |-> formatDurationShort(downtime)]

\* alerts.go: formatGroupedRecoveryEdit
formatGroupedRecoveryEdit(pending, recovs) ==
    IF Len(recovs) = 0 THEN [header |-> "", targets |-> <<>>]
    ELSE LET sorted == SortByTarget(recovs)
         IN  [header   |-> "<b>DOWN -> RECOVERED x" \o ToString(Len(recovs)) \o "</b>",
              reason   |-> recovs[1].Reason,
              time_utc |-> Latest(recovs),
              targets  |-> [i \in 1..Len(sorted) |-> RecoveredLine(pending, sorted[i])]]

\* the target names a text lists
NamesIn(text) == {text.targets[i].name : i \in 1..Len(text.targets)}

----------------------------------------------------------------------------
(* The transport (types.go: Notifier), as the AlertManager sees it.  A call *)
(* is recorded with its result.                                            *)

SendCall(text, ok) ==
    [op |-> "SendDefaultHTML", messageID |-> 0, text |-> text, ok |-> ok]

SendWithIDCall(text, ok, messageID) ==
    [op |-> "SendDefaultHTMLWithID", messageID |-> messageID, text |-> text, ok |-> ok]

EditCall(messageID, text, ok) ==
    [op |-> "EditDefaultHTML", messageID |-> messageID, text |-> text, ok |-> ok]

\* what SendDefaultHTMLWithID can return: an error, no identifier (a text
\* of more than one chunk), or a fresh identifier
SendWithIDResults(nextID) ==
    {[ok |-> FALSE, messageID |-> 0], [ok |-> TRUE, messageID |-> 0]}
        \cup (IF nextID <= MaxMessageID
              THEN {[ok |-> TRUE, messageID |-> nextID]} ELSE {})

----------------------------------------------------------------------------
(* AlertManager.  A run of SendBatch is a record                            *)
(*   [pendingDown, pendingGroup, nextMessageID, calls, remaining,           *)
(*    groupedRecoveries]                                                    *)
(* and every operator below returns the set of runs that the results of the *)
(* transport calls allow.                                                   *)

\* alerts.go:125, the events the fast-recovery pass looks at
IsFastRecovery(ev) == ev.Kind = "RECOVERED" /\ ev.Reason = "state-change"

\* the window with its boundary left out
OutsideWindowAtBoundary(occurred, downAt, window) == occurred - downAt >= window

\* alerts.go:137 and :167, ev.Occurred.Sub(pending.DownAt) > window
OutsideWindow(occurred, downAt, window) == occurred - downAt > window

\* plausible slip: a recovery that was not edited in is dropped
AddGroupedDropped(run, ev) == run

\* alerts.go:132, groupedRecoveries[ev.Reason] = append(..., ev)
AddGrouped(run, ev) ==
    [run EXCEPT !.groupedRecoveries =
        MapPut(@, ev.Reason,
               (IF ev.Reason \in DOMAIN @ THEN @[ev.Reason] ELSE <<>>) \o <<ev>>)]

\* alerts.go:135, delete(a.pendingDown, ev.Target)
TakeRecord(run, target) == [run EXCEPT !.pendingDown = MapDelete(@, target)]

\* plausible slip: the record is deleted only once its edit succeeded
RecoveryStepDeletesOnSuccess(run, ev, window) ==
    IF ~IsFastRecovery(ev)
    THEN {[run EXCEPT !.remaining = Append(@, ev)]}
    ELSE IF ev.Target \notin DOMAIN run.pendingDown
    THEN {AddGrouped(run, ev)}
    ELSE LET pending == run.pendingDown[ev.Target]
             text    == formatRecoveredEdit(ev, pending)
         IN  IF OutsideWindow(ev.Occurred, pending.DownAt, window)
             THEN {AddGrouped(run, ev)}
             ELSE { [TakeRecord(run, ev.Target) EXCEPT !.calls =
                        Append(@, EditCall(pending.MessageID, text, TRUE))],
                    AddGrouped(
                      [run EXCEPT !.calls =
                          Append(@, EditCall(pending.MessageID, text, FALSE))],
                      ev) }

\* alerts.go:124-147, the body of the first loop of applyFastRecoveryEdits
RecoveryStep(run, ev, window) ==
    IF ~IsFastRecovery(ev)
    THEN {[run EXCEPT !.remaining = Append(@, ev)]}
    ELSE IF ev.Target \notin DOMAIN run.pendingDown
    THEN {AddGrouped(run, ev)}
    ELSE LET pending == run.pendingDown[ev.Target]
             taken   == TakeRecord(run, ev.Target)
             text    == formatRecoveredEdit(ev, pending)
         IN  IF OutsideWindow(ev.Occurred, pending.DownAt, window)
             THEN {AddGrouped(taken, ev)}
             ELSE { [taken EXCEPT !.calls =
                        Append(@, EditCall(pending.MessageID, text, TRUE))],
                    AddGrouped(
                      [taken EXCEPT !.calls =
                          Append(@, EditCall(pending.MessageID, text, FALSE))],
                      ev) }

\* alerts.go:124, the first loop over the events of the batch
RECURSIVE RecoveryLoop(_, _, _)
RecoveryLoop(runs, events, window) ==
    IF events = <<>> THEN runs
    ELSE RecoveryLoop(UNION {RecoveryStep(run, Head(events), window) : run \in runs},
                      Tail(events), window)

\* a match that does not compare the sizes
GroupMatchesSubset(pending, recovs, window) ==
    \A i \in 1..Len(recovs) :
        /\ recovs[i].Target \in DOMAIN pending.Targets
        /\ ~OutsideWindow(recovs[i].Occurred, pending.DownAt, window)

\* alerts.go:158-171, one pending group against the grouped recoveries
GroupMatches(pending, recovs, window) ==
    /\ Cardinality(DOMAIN pending.Targets) = Len(recovs)
    /\ \A i \in 1..Len(recovs) :
          /\ recovs[i].Target \in DOMAIN pending.Targets
          /\ ~OutsideWindow(recovs[i].Occurred, pending.DownAt, window)

\* the last pending group that matches instead of the first
LastMatch(pendingList, recovs, window) ==
    LET hits == {idx \in 1..Len(pendingList) :
                    GroupMatches(pendingList[idx], recovs, window)}
    IN  IF hits = {} THEN 0
        ELSE CHOOSE idx \in hits : \A other \in hits : idx >= other

\* alerts.go:156-180, the index of the first pending group that matches, 0
\* when none does (consumedIdx + 1)
FirstMatch(pendingList, recovs, window) ==
    LET hits == {idx \in 1..Len(pendingList) :
                    GroupMatches(pendingList[idx], recovs, window)}
    IN  IF hits = {} THEN 0
        ELSE CHOOSE idx \in hits : \A other \in hits : idx <= other

\* plausible slip: the matched entry is removed only when its edit succeeded
GroupRecoveryStepKeepsOnFailure(run, reason, window) ==
    LET recovs      == run.groupedRecoveries[reason]
        pendingList == run.pendingGroup[reason]
        unmatched   == [run EXCEPT !.remaining = @ \o recovs]
    IN  IF Len(pendingList) = 0 THEN {unmatched}
        ELSE LET idx == FirstMatch(pendingList, recovs, window)
             IN  IF idx = 0 THEN {unmatched}
                 ELSE LET pending  == pendingList[idx]
                          text     == formatGroupedRecoveryEdit(pending, recovs)
                          consumed == [run EXCEPT !.pendingGroup[reason] =
                                                      RemoveAt(@, idx)]
                      IN  { [consumed EXCEPT !.calls =
                                Append(@, EditCall(pending.MessageID, text, TRUE))],
                            [run EXCEPT
                                !.calls = Append(@, EditCall(pending.MessageID, text, FALSE)),
                                !.remaining = @ \o SortByTarget(recovs)] }

\* alerts.go:150-187, the body of the second loop of applyFastRecoveryEdits
GroupRecoveryStep(run, reason, window) ==
    LET recovs      == run.groupedRecoveries[reason]
        pendingList == run.pendingGroup[reason]
        unmatched   == [run EXCEPT !.remaining = @ \o recovs]
    IN  IF Len(pendingList) = 0 THEN {unmatched}
        ELSE LET idx == FirstMatch(pendingList, recovs, window)
             IN  IF idx = 0 THEN {unmatched}
                 ELSE LET pending  == pendingList[idx]
                          text     == formatGroupedRecoveryEdit(pending, recovs)
                          consumed == [run EXCEPT !.pendingGroup[reason] =
                                                      RemoveAt(@, idx)]
                      IN  { [consumed EXCEPT !.calls =
                                Append(@, EditCall(pending.MessageID, text, TRUE))],
                            [consumed EXCEPT
                                !.calls = Append(@, EditCall(pending.MessageID, text, FALSE)),
                                !.remaining = @ \o SortByTarget(recovs)] }

\* alerts.go:150, the second loop, over the reasons that have recoveries
RECURSIVE GroupRecoveryLoop(_, _, _)
GroupRecoveryLoop(runs, reasons, window) ==
    IF reasons = {} THEN runs
    ELSE LET reason == CHOOSE r \in reasons : TRUE
         IN  GroupRecoveryLoop(
                 UNION {GroupRecoveryStep(run, reason, window) : run \in runs},
                 reasons \ {reason}, window)

\* plausible slip: the events that were edited in are sent as well
applyFastRecoveryEditsResends(run, events, window) ==
    LET start  == [run EXCEPT !.remaining = <<>>, !.groupedRecoveries = <<>>]
        first  == RecoveryLoop({start}, events, window)
    IN  UNION { {[done EXCEPT !.remaining = events] :
                    done \in GroupRecoveryLoop({r}, DOMAIN r.groupedRecoveries, window)}
                : r \in first }

\* alerts.go: applyFastRecoveryEdits
applyFastRecoveryEdits(run, events, window) ==
    LET start  == [run EXCEPT !.remaining = <<>>, !.groupedRecoveries = <<>>]
        first  == RecoveryLoop({start}, events, window)
    IN  UNION { GroupRecoveryLoop({r}, DOMAIN r.groupedRecoveries, window) : r \in first }

----------------------------------------------------------------------------
(* Grouping and dispatch *)

\* alerts.go:48, key := event.Kind + "|" + event.Reason
GroupKey(ev) == ev.Kind \o "|" \o ev.Reason

\* the keys of the model in ascending string order (Go's < on strings)
KeysAscending ==
    <<"DOWN|initial-check", "DOWN|state-change",
      "INFO|initial-check", "INFO|state-change",
      "RECOVERED|initial-check", "RECOVERED|state-change">>

StringRank(key) == CHOOSE i \in 1..Len(KeysAscending) : KeysAscending[i] = key

\* plausible slip: the kinds are not ranked
alertOrderFlat(kind) == 0

\* alerts.go: alertOrder
alertOrder(kind) ==
    CASE kind = "DOWN" -> 0
      [] kind = "RECOVERED" -> 1
      [] OTHER -> 2

\* alerts.go:55-62, the less function of the sort of the keys; a key is
\* kept with the kind and the reason it was cut from
KeyLess(left, right) ==
    IF left.kind # right.kind
    THEN alertOrder(left.kind) < alertOrder(right.kind)
    ELSE StringRank(left.key) < StringRank(right.key)

\* alerts.go:46-53, the keys in the order of their first event
RECURSIVE FirstSeen(_, _)
FirstSeen(events, seen) ==
    IF events = <<>> THEN <<>>
    ELSE LET ev  == Head(events)
             key == [key |-> GroupKey(ev), kind |-> ev.Kind, reason |-> ev.Reason]
         IN  IF key \in seen THEN FirstSeen(Tail(events), seen)
             ELSE <<key>> \o FirstSeen(Tail(events), seen \cup {key})

\* alerts.go:55, sort.SliceStable of the keys
RECURSIVE SortKeys(_)
SortKeys(order) ==
    IF order = <<>> THEN <<>>
    ELSE LET least == CHOOSE i \in 1..Len(order) :
                          \A j \in 1..Len(order) :
                              \/ KeyLess(order[i], order[j])
                              \/ ~KeyLess(order[j], order[i]) /\ i <= j
         IN  <<order[least]>> \o SortKeys(RemoveAt(order, least))

\* alerts.go:52, groups[key]: the events of one key, in batch order
GroupOf(events, key) == SelectSeq(events, LAMBDA ev : GroupKey(ev) = key)

\* plausible slip: only the first event of the group is remembered
pendingDownGroupOfFirst(messageID, reason, group) ==
    [MessageID |-> messageID, Reason |-> reason, DownAt |-> group[1].Occurred,
     Targets |-> [name \in {group[1].Target} |-> group[1]]]

\* alerts.go:101-109, the pendingDownGroup of a group that was sent
pendingDownGroup(messageID, reason, group) ==
    [MessageID |-> messageID, Reason |-> reason, DownAt |-> group[1].Occurred,
     Targets |-> [name \in {group[i].Target : i \in 1..Len(group)} |->
                    LET last == CHOOSE i \in 1..Len(group) :
                                    /\ group[i].Target = name
                                    /\ \A j \in 1..Len(group) :
                                          group[j].Target = name => j <= i
                    IN  group[last]]]

\* alerts.go:75, the group that is remembered as a pendingDownAlert
IsSingleDown(kind, reason, group) ==
    kind = "DOWN" /\ reason = "state-change" /\ Len(group) = 1

\* alerts.go:94, the group that is remembered as a pendingDownGroup
IsGroupedDown(kind, reason, group) ==
    kind = "DOWN" /\ reason = "state-change" /\ Len(group) > 1

\* plausible slip: the identifier is kept whatever it is
KeepsAnyMessageID(messageID) == TRUE

\* alerts.go:81 and :100, a returned identifier is kept when it is positive
KeepsMessageID(messageID) == messageID > 0

\* alerts.go: AlertManager.handleGroupSend
handleGroupSend(run, kind, reason, group, message) ==
    IF IsSingleDown(kind, reason, group)
    THEN { LET called == [run EXCEPT
                            !.calls = Append(@, SendWithIDCall(message, res.ok, res.messageID)),
                            !.nextMessageID = IF res.messageID > 0 THEN @ + 1 ELSE @]
           IN  IF res.ok /\ KeepsMessageID(res.messageID)
               THEN [called EXCEPT !.pendingDown =
                        MapPut(@, group[1].Target,
                               pendingDownAlert(res.messageID, group[1]))]
               ELSE called
           : res \in SendWithIDResults(run.nextMessageID) }
    ELSE IF IsGroupedDown(kind, reason, group)
    THEN { LET called == [run EXCEPT
                            !.calls = Append(@, SendWithIDCall(message, res.ok, res.messageID)),
                            !.nextMessageID = IF res.messageID > 0 THEN @ + 1 ELSE @]
           IN  IF res.ok /\ KeepsMessageID(res.messageID)
               THEN [called EXCEPT !.pendingGroup[reason] =
                        Append(@, pendingDownGroup(res.messageID, reason, group))]
               ELSE called
           : res \in SendWithIDResults(run.nextMessageID) }
    ELSE { [run EXCEPT !.calls = Append(@, SendCall(message, ok))] : ok \in BOOLEAN }

\* plausible slip: a failed send ends the dispatch of the batch
RECURSIVE DispatchLoopStopsOnFailure(_, _, _)
DispatchLoopStopsOnFailure(runs, order, events) ==
    IF order = <<>> THEN runs
    ELSE LET key    == Head(order)
             group  == SortByTarget(GroupOf(events, key.key))
             next   == UNION {handleGroupSend(run, key.kind, key.reason, group,
                                              formatAlertGroup(group)) : run \in runs}
             failed == {run \in next : ~run.calls[Len(run.calls)].ok}
         IN  failed \cup DispatchLoopStopsOnFailure(next \ failed, Tail(order), events)

\* alerts.go:64-71, the loop over the sorted keys
RECURSIVE DispatchLoop(_, _, _)
DispatchLoop(runs, order, events) ==
    IF order = <<>> THEN runs
    ELSE LET key   == Head(order)
             group == SortByTarget(GroupOf(events, key.key))
         IN  DispatchLoop(
                 UNION {handleGroupSend(run, key.kind, key.reason, group,
                                        formatAlertGroup(group)) : run \in runs},
                 Tail(order), events)

\* alerts.go: AlertManager.SendBatch, from the state `run`
SendBatchRuns(run, events) ==
    IF ~notifier \/ Len(events) = 0 THEN {run}
    ELSE UNION { DispatchLoop({edited}, SortKeys(FirstSeen(edited.remaining, {})),
                              edited.remaining)
                 : edited \in applyFastRecoveryEdits(run, events, FastRecoveryWindow) }

----------------------------------------------------------------------------
(* The batches handed to SendBatch: at most one event for a target, as the  *)
(* engine's cycle emits them, in any of the kinds and reasons applyStatus   *)
(* produces; the events of one batch occurred at the same second, `at`.     *)

EventShapes ==
    {<<"DOWN", "initial-check">>, <<"DOWN", "state-change">>,
     <<"RECOVERED", "state-change">>}

NoEvent == <<"-", "-">>

DefaultPort == 80

\* the events a choice of shapes stands for, in the order of the names
RECURSIVE ShapesFrom(_, _)
ShapesFrom(choice, i) ==
    IF i > Len(TargetOrder) THEN <<>>
    ELSE LET name == TargetOrder[i]
         IN  (IF choice[name] = NoEvent THEN <<>>
              ELSE <<[Kind |-> choice[name][1], Target |-> name,
                      Reason |-> choice[name][2]]>>)
             \o ShapesFrom(choice, i + 1)

BatchShapes ==
    {ShapesFrom(choice, 1) : choice \in [Targets -> EventShapes \cup {NoEvent}]}

\* the batch of the given shapes, occurring at `at`
BatchAt(shapes, at) ==
    [i \in 1..Len(shapes) |->
        alertEvent(shapes[i].Kind, shapes[i].Target, DefaultAddress(shapes[i].Target),
                   DefaultPort, shapes[i].Reason, at)]

----------------------------------------------------------------------------
(* The monitoring engine: values and pure functions *)

\* the names of the target definitions
TargetNames == {"a", "b"}

Ports == {DefaultPort, DefaultPort + 1}

\* the zero time.Time of a target that was never checked
ZeroTime == 0 - 1

boolPtr(value) == <<value>>

\* types.go: TargetState as NewMonitorEngine and syncTargets create it;
\* LastStatus is <<>> for a nil pointer and <<v>> for a pointer to v
TargetState(name, address, port) ==
    [Name |-> name, Address |-> address, Port |-> port, LastStatus |-> <<>>,
     LastChanged |-> ZeroTime, LastChecked |-> ZeroTime]

\* the log reason applyStatus picks, plausible slip: the first result of a
\* target counts as a change
logReasonInitAsChange(target, status) ==
    IF target.LastStatus # <<>> /\ target.LastStatus[1] = status THEN "POLL"
    ELSE "CHANGE"

\* part_003: applyStatus, the reason logged
logReason(target, status) ==
    IF target.LastStatus = <<>> THEN "INIT"
    ELSE IF target.LastStatus[1] # status THEN "CHANGE"
    ELSE "POLL"

eventOf(kind, target, reason, at) ==
    <<alertEvent(kind, target.Name, target.Address, target.Port, reason, at)>>

\* part_003: applyStatus, the event returned: <<>> for nil
transitionEvent(target, status, at) ==
    IF target.LastStatus = <<>>
    THEN (IF ~status THEN eventOf("DOWN", target, "initial-check", at) ELSE <<>>)
    ELSE IF target.LastStatus[1] # status
    THEN (IF target.LastStatus[1] /\ ~status
          THEN eventOf("DOWN", target, "state-change", at)
          ELSE IF ~target.LastStatus[1] /\ status
          THEN eventOf("RECOVERED", target, "state-change", at)
          ELSE <<>>)
    ELSE <<>>

\* part_003: applyStatus, the part under the lock: the target as it is left,
\* the reason to log and the event
applyStatus(target, status, at) ==
    [target |-> IF target.LastStatus = <<>> \/ target.LastStatus[1] # status
                THEN [target EXCEPT !.LastChecked = at,
                                    !.LastStatus = boolPtr(status),
                                    !.LastChanged = at]
                ELSE [target EXCEPT !.LastChecked = at],
     reason |-> logReason(target, status),
     event  |-> transitionEvent(target, status, at)]

maxParallelChecksHardLimit == 256

\* part_003: defaultWorkers
defaultWorkers(value, targetCount) ==
    LET fromCount == IF value <= 0 THEN targetCount ELSE value
        atLeastOne == IF fromCount < 1 THEN 1 ELSE fromCount
    IN  IF atLeastOne > maxParallelChecksHardLimit
        THEN maxParallelChecksHardLimit ELSE atLeastOne

\* the names of a set in ascending order
RECURSIVE Ascending(_)
Ascending(names) ==
    IF names = {} THEN <<>>
    ELSE LET first == CHOOSE n \in names :
                        \A other \in names : NameRank(n) <= NameRank(other)
         IN  <<first>> \o Ascending(names \ {first})

\* sqlite.go: listTargets, the enabled definitions ordered by name
ListTargets(definitions) ==
    LET enabled == Ascending({n \in DOMAIN definitions : definitions[n].Enabled})
    IN  [i \in 1..Len(enabled) |->
            [Name |-> enabled[i], Address |-> definitions[enabled[i]].Address,
             Port |-> definitions[enabled[i]].Port, Enabled |-> TRUE]]

\* sqlite.go: upsertTarget
upsertTarget(definitions, name, address, port) ==
    MapPut(definitions, name, [Address |-> address, Port |-> port, Enabled |-> TRUE])

\* sqlite.go: deleteTarget
deleteTarget(definitions, name) ==
    IF name \in DOMAIN definitions
    THEN [definitions EXCEPT ![name].Enabled = FALSE]
    ELSE definitions

\* MonitorEngine.targetByName: the objects of the name, none or one
targetByName(registry, name) ==
    SelectSeq(registry, LAMBDA t : t.Name = name)

\* plausible slip: the state is carried forward for the name alone
SyncedTargetByName(registry, row) ==
    LET previous == targetByName(registry, row.Name)
        target == TargetState(row.Name, row.Address, row.Port)
    IN  IF previous # <<>>
        THEN [target EXCEPT !.LastStatus = previous[1].LastStatus,
                            !.LastChanged = previous[1].LastChanged,
                            !.LastChecked = previous[1].LastChecked]
        ELSE target

\* part_003: syncTargets, the object made for a row
SyncedTarget(registry, row) ==
    LET previous == targetByName(registry, row.Name)
        target == TargetState(row.Name, row.Address, row.Port)
    IN  IF /\ previous # <<>>
           /\ previous[1].Address = row.Address
           /\ previous[1].Port = row.Port
        THEN [target EXCEPT !.LastStatus = previous[1].LastStatus,
                            !.LastChanged = previous[1].LastChanged,
                            !.LastChecked = previous[1].LastChecked]
        ELSE target

\* sort.Slice by name
RECURSIVE SortByName(_)
SortByName(objects) ==
    IF objects = <<>> THEN <<>>
    ELSE LET first == CHOOSE i \in 1..Len(objects) :
                        \A j \in 1..Len(objects) :
                            NameRank(objects[i].Name) <= NameRank(objects[j].Name)
         IN  <<objects[first]>> \o SortByName(RemoveAt(objects, first))

ValidRow(row) ==
    row.Enabled /\ row.Name # "" /\ row.Address # "" /\ row.Port > 0

\* part_003: syncTargets, the registry built from the rows listed
syncTargets(registry, rows) ==
    LET kept == SelectSeq(rows, ValidRow)
    IN  SortByName([i \in 1..Len(kept) |-> SyncedTarget(registry, kept[i])])

\* A task of a cycle holds the object it was given.  link tells what that
\* object still shares with the registry: "same" when the registry holds the
\* very object, "cell" when the registry holds another object whose
\* LastStatus points to the same bool, "detached" when nothing is shared and
\* "spent" once applyStatus has run on it.
Held(target) ==
    [Name |-> target.Name, Address |-> target.Address, Port |-> target.Port,
     LastStatus |-> target.LastStatus, LastChanged |-> target.LastChanged,
     LastChecked |-> target.LastChecked, link |-> "same"]

Object(held) ==
    [Name |-> held.Name, Address |-> held.Address, Port |-> held.Port,
     LastStatus |-> held.LastStatus, LastChanged |-> held.LastChanged,
     LastChecked |-> held.LastChecked]

\* part_003: syncTargets copies the LastStatus pointer of the previous
\* object when the endpoint is unchanged, and only then
Carried(registry, rows, name) ==
    \E i \in 1..Len(rows) :
        /\ ValidRow(rows[i])
        /\ rows[i].Name = name
        /\ targetByName(registry, name) # <<>>
        /\ targetByName(registry, name)[1].Address = rows[i].Address
        /\ targetByName(registry, name)[1].Port = rows[i].Port

Relink(held, registry, rows) ==
    IF held.link \in {"spent", "detached"} THEN held
    ELSE IF Carried(registry, rows, held.Name) /\ held.LastStatus # <<>>
    THEN [held EXCEPT !.link = "cell"]
    ELSE [held EXCEPT !.link = "detached"]

\* the registry after applyStatus ran on a held object
RegistryAfter(registry, held, result) ==
    [i \in 1..Len(registry) |->
        IF registry[i].Name # held.Name THEN registry[i]
        ELSE IF held.link = "same" THEN result.target
        ELSE IF held.link = "cell"
        THEN [registry[i] EXCEPT !.LastStatus = result.target.LastStatus]
        ELSE registry[i]]

----------------------------------------------------------------------------
(* The monitoring engine: Run, runChecks and the target handlers *)

NoListing == [ok |-> FALSE, rows |-> <<>>]

Queued == [pc |-> "queued", status |-> FALSE, reason |-> "", event |-> <<>>]

\* the tasks of the cycle that were started
Launched == {i \in DOMAIN probes : probes[i].pc # "queued"}

\* plausible slip: a task does not give its token back
TokensKept == Cardinality({i \in DOMAIN probes : probes[i].pc # "queued"})

\* the semaphore tokens held
Tokens ==
    Cardinality({i \in DOMAIN probes : probes[i].pc \in {"probing", "applied", "logged", "sent"}})

\* the tasks whose applyStatus has returned
Logged == {i \in DOMAIN probes : probes[i].pc \in {"logged", "sent", "released", "done"}}

\* plausible slip: the callback does not wait for the tasks
JoinSkipped(tasks) == TRUE

\* part_003: runChecks, wg.Wait returns: every task started has finished
Joined(tasks) == \A i \in DOMAIN tasks : tasks[i].pc \in {"queued", "done"}

\* part_003: runChecks returns early when the slice is empty
NothingToCheck(slice) == Len(slice) = 0

\* plausible slip: only changes are logged
AppendChanges(rows, row) == IF row.Reason = "POLL" THEN rows ELSE Append(rows, row)

\* part_003: applyStatus calls logs.Append once
AppendRow(rows, row) == Append(rows, row)

\* part_003: NewMonitorEngine on the configured targets, the store seeded
\* with them (main.go: seedTargets), Run not yet called
EngineInit(configured, parallel) ==
    /\ store = [n \in configured |->
                   [Address |-> DefaultAddress(n), Port |-> DefaultPort, Enabled |-> TRUE]]
    /\ targets = LET names == Ascending(configured)
                 IN  [i \in 1..Len(names) |->
                         TargetState(names[i], DefaultAddress(names[i]), DefaultPort)]
    /\ maxParallel = parallel
    /\ cancelled = FALSE
    /\ runPC = "start"
    /\ listing = NoListing
    /\ snapshot = <<>>
    /\ probes = <<>>
    /\ eventsCh = <<>>
    /\ appended = [n \in TargetNames |-> <<>>]
    /\ delivered = <<>>
    /\ admin = {}
    /\ handled = 0

\* part_003: runChecks is entered: syncTargets calls ListTargets, which
\* answers with the rows or fails
EnterRunChecks(listed) ==
    /\ listing' = IF listed THEN [ok |-> TRUE, rows |-> ListTargets(store)] ELSE NoListing
    /\ runPC' = "sync"
    /\ snapshot' = <<>>
    /\ probes' = <<>>
    /\ eventsCh' = <<>>
    /\ appended' = [n \in TargetNames |-> <<>>]
    /\ delivered' = <<>>
    /\ UNCHANGED <<store, targets, maxParallel, cancelled, admin, handled>>

\* part_003: Run, the cycle it executes at once
Run(listed) ==
    /\ runPC = "start"
    /\ EnterRunChecks(listed)
    /\ UNCHANGED alertVars

\* plausible slip: a tick starts its cycle without waiting for the cycle
\* that is running
TickerFiresEarly(listed, later) ==
    /\ runPC \in {"select", "loop", "acquire", "wait"}
    /\ later > now
    /\ now' = later
    /\ EnterRunChecks(listed)
    /\ editedBefore' = {}
    /\ UNCHANGED <<notifier, pendingDown, pendingGroup, nextMessageID, phase,
                   lastBatch, calls, prevDown, prevGroup, reported, callArgs, callResult, dashboardVars>>

\* part_003: Run, the select takes the tick; the clock has moved on
TickerFires(listed, later) ==
    /\ runPC = "select"
    /\ phase = "idle"
    /\ later > now
    /\ now' = later
    /\ EnterRunChecks(listed)
    /\ editedBefore' = {}
    /\ UNCHANGED <<notifier, pendingDown, pendingGroup, nextMessageID, phase,
                   lastBatch, calls, prevDown, prevGroup, reported, callArgs, callResult, dashboardVars>>

\* part_003: Run, the select takes ctx.Done
CtxDone ==
    /\ runPC = "select"
    /\ phase = "idle"
    /\ cancelled
    /\ runPC' = "returned"
    /\ UNCHANGED <<store, targets, maxParallel, cancelled, listing, snapshot, probes,
                   eventsCh, appended, delivered, admin, handled>>
    /\ UNCHANGED alertVars

\* the run context is cancelled
Cancel ==
    /\ ~cancelled
    /\ runPC # "returned"
    /\ cancelled' = TRUE
    /\ UNCHANGED <<store, targets, maxParallel, runPC, listing, snapshot, probes,
                   eventsCh, appended, delivered, admin, handled>>
    /\ UNCHANGED alertVars

\* plausible slip: a failed listing is taken for a store without targets
SyncTargetsFromNothing ==
    /\ runPC = "sync"
    /\ targets' = syncTargets(targets, listing.rows)
    /\ listing' = NoListing
    /\ runPC' = "snapshot"
    /\ UNCHANGED <<store, maxParallel, cancelled, snapshot, probes, eventsCh,
                   appended, delivered, admin, handled>>
    /\ UNCHANGED alertVars

\* part_003: syncTargets of the cycle, the rebuild under the lock; nothing
\* is rebuilt when the listing failed
SyncTargets ==
    /\ runPC = "sync"
    /\ targets' = IF listing.ok THEN syncTargets(targets, listing.rows) ELSE targets
    /\ listing' = NoListing
    /\ runPC' = "snapshot"
    /\ UNCHANGED <<store, maxParallel, cancelled, snapshot, probes, eventsCh,
                   appended, delivered, admin, handled>>
    /\ UNCHANGED alertVars

\* part_003: runChecks copies the slice and returns when it is empty
TakeSnapshot ==
    /\ runPC = "snapshot"
    /\ snapshot' = [i \in 1..Len(targets) |-> Held(targets[i])]
    /\ probes' = [i \in 1..Len(targets) |-> Queued]
    /\ runPC' = IF NothingToCheck(targets) THEN "select" ELSE "loop"
    /\ UNCHANGED <<store, targets, maxParallel, cancelled, listing, eventsCh,
                   appended, delivered, admin, handled>>
    /\ UNCHANGED alertVars

\* plausible slip: a cancelled cycle returns instead of leaving the loop
LoopHeadReturns ==
    /\ runPC = "loop"
    /\ runPC' = IF cancelled THEN "select"
                ELSE IF Cardinality(Launched) = Len(snapshot) THEN "wait"
                ELSE "acquire"
    /\ UNCHANGED <<store, targets, maxParallel, cancelled, listing, snapshot, probes,
                   eventsCh, appended, delivered, admin, handled>>
    /\ UNCHANGED alertVars

\* part_003: runChecks, the head of the loop over the slice
LoopHead ==
    /\ runPC = "loop"
    /\ runPC' = IF Cardinality(Launched) = Len(snapshot) \/ cancelled
                THEN "wait" ELSE "acquire"
    /\ UNCHANGED <<store, targets, maxParallel, cancelled, listing, snapshot, probes,
                   eventsCh, appended, delivered, admin, handled>>
    /\ UNCHANGED alertVars

\* plausible slip: the task is started without waiting for a token
LaunchUnbounded ==
    /\ runPC = "acquire"
    /\ probes' = [probes EXCEPT ![Cardinality(Launched) + 1].pc = "probing"]
    /\ runPC' = "loop"
    /\ UNCHANGED <<store, targets, maxParallel, cancelled, listing, snapshot,
                   eventsCh, appended, delivered, admin, handled>>
    /\ UNCHANGED alertVars

\* part_003: runChecks takes a token and starts the task of the next object
Launch ==
    /\ runPC = "acquire"
    /\ Tokens < defaultWorkers(maxParallel, Len(snapshot))
    /\ probes' = [probes EXCEPT ![Cardinality(Launched) + 1].pc = "probing"]
    /\ runPC' = "loop"
    /\ UNCHANGED <<store, targets, maxParallel, cancelled, listing, snapshot,
                   eventsCh, appended, delivered, admin, handled>>
    /\ UNCHANGED alertVars

\* part_003: a task: checkTCP answers `status` and applyStatus runs its
\* locked part on the object the task holds
ApplyStatus(i, status) ==
    /\ i \in DOMAIN probes
    /\ probes[i].pc = "probing"
    /\ LET result == applyStatus(Object(snapshot[i]), status, now)
       IN  /\ targets' = RegistryAfter(targets, snapshot[i], result)
           /\ probes' = [probes EXCEPT ![i] = [pc |-> "applied", status |-> status,
                                               reason |-> result.reason,
                                               event |-> result.event]]
    /\ snapshot' = [snapshot EXCEPT ![i].link = "spent"]
    /\ UNCHANGED <<store, maxParallel, cancelled, runPC, listing, eventsCh,
                   appended, delivered, admin, handled>>
    /\ UNCHANGED alertVars

\* the row applyStatus hands to logs.Append for the task's object
LogRow(i, stored) ==
    [Target |-> snapshot[i].Name, Address |-> snapshot[i].Address,
     Port |-> snapshot[i].Port, Status |-> probes[i].status,
     Reason |-> probes[i].reason, ok |-> stored]

\* plausible slip: a task whose Append failed does not get to its end
AppendLogUnlessFailed(i, stored) ==
    /\ i \in DOMAIN probes
    /\ probes[i].pc = "applied"
    /\ appended' = [appended EXCEPT ![snapshot[i].Name] = AppendRow(@, LogRow(i, stored))]
    /\ probes' = [probes EXCEPT ![i].pc = IF stored THEN "logged" ELSE "failed"]
    /\ UNCHANGED <<store, targets, maxParallel, cancelled, runPC, listing, snapshot,
                   eventsCh, delivered, admin, handled>>
    /\ UNCHANGED alertVars

\* part_003: a task: applyStatus, after its locked part, calls logs.Append,
\* which may fail, and returns the event
AppendLog(i, stored) ==
    /\ i \in DOMAIN probes
    /\ probes[i].pc = "applied"
    /\ appended' = [appended EXCEPT ![snapshot[i].Name] = AppendRow(@, LogRow(i, stored))]
    /\ probes' = [probes EXCEPT ![i].pc = "logged"]
    /\ UNCHANGED <<store, targets, maxParallel, cancelled, runPC, listing, snapshot,
                   eventsCh, delivered, admin, handled>>
    /\ UNCHANGED alertVars

\* part_003: a task: the event, when there is one, goes to the channel,
\* which has room for one event of every task
PublishEvent(i) ==
    /\ i \in DOMAIN probes
    /\ probes[i].pc = "logged"
    /\ probes[i].event # <<>>
    /\ eventsCh' = eventsCh \o probes[i].event
    /\ probes' = [probes EXCEPT ![i].pc = "sent"]
    /\ UNCHANGED <<store, targets, maxParallel, cancelled, runPC, listing, snapshot,
                   appended, delivered, admin, handled>>
    /\ UNCHANGED alertVars

\* part_003: a task: the deferred receive on sem gives the token back
ReleaseToken(i) ==
    /\ i \in DOMAIN probes
    /\ \/ probes[i].pc = "sent"
       \/ probes[i].pc = "logged" /\ probes[i].event = <<>>
    /\ probes' = [probes EXCEPT ![i].pc = "released"]
    /\ UNCHANGED <<store, targets, maxParallel, cancelled, runPC, listing, snapshot,
                   eventsCh, appended, delivered, admin, handled>>
    /\ UNCHANGED alertVars

\* part_003: a task: the deferred wg.Done, the last thing the task does
TaskDone(i) ==
    /\ i \in DOMAIN probes
    /\ probes[i].pc = "released"
    /\ probes' = [probes EXCEPT ![i].pc = "done"]
    /\ UNCHANGED <<store, targets, maxParallel, cancelled, runPC, listing, snapshot,
                   eventsCh, appended, delivered, admin, handled>>
    /\ UNCHANGED alertVars

\* part_003: runChecks after wg.Wait: the channel is drained, onEvents is
\* called with the batch and the locals of the cycle are gone; what the
\* callback does is said where Run is given one
InvokeOnEvents ==
    /\ runPC = "wait"
    /\ Joined(probes)
    /\ delivered' = Append(delivered, eventsCh)
    /\ runPC' = "select"
    /\ snapshot' = <<>>
    /\ probes' = <<>>
    /\ eventsCh' = <<>>
    /\ appended' = [n \in TargetNames |-> <<>>]
    /\ UNCHANGED <<store, targets, maxParallel, cancelled, listing, admin, handled>>

\* the strings the handlers are given with white space around them
Blank == " "

PaddedA == " a "

\* strings.TrimSpace on the strings the handlers are given
TrimSpace(raw) ==
    IF raw = Blank THEN ""
    ELSE IF raw = PaddedA THEN "a"
    ELSE raw

NoError == "nil"

\* part_003: UpsertTarget, fmt.Errorf with the port that was given
PortError(port) == "target port must be between 1 and 65535, got " \o ToString(port)

StoreError == "store: write failed"

\* plausible slip: port 0 passes the validation
UpsertTargetErrorPortZero(name, address, port, written) ==
    IF TrimSpace(name) = "" THEN "target name is required"
    ELSE IF TrimSpace(address) = "" THEN "target address is required"
    ELSE IF port < 0 \/ port > 65535 THEN PortError(port)
    ELSE IF ~written THEN StoreError
    ELSE NoError

\* part_003: UpsertTarget, the error returned; `written` tells whether the
\* store accepts the write
UpsertTargetError(name, address, port, written) ==
    IF TrimSpace(name) = "" THEN "target name is required"
    ELSE IF TrimSpace(address) = "" THEN "target address is required"
    ELSE IF port <= 0 \/ port > 65535 THEN PortError(port)
    ELSE IF ~written THEN StoreError
    ELSE NoError

\* part_003: DeleteTarget, the error returned
DeleteTargetError(name, written) ==
    IF TrimSpace(name) = "" THEN "target name is required"
    ELSE IF ~written THEN StoreError
    ELSE NoError

\* a handler that has written to the store and has not yet returned: the
\* n-th write, before the ListTargets of its syncTargets ("written") or
\* between that ListTargets and the rebuild ("listed"); `watched` marks the
\* call whose return is looked at
Written(n, watched) == [call |-> n, pc |-> "written", rows |-> <<>>, watched |-> watched]

Listed(frame, rows) == [frame EXCEPT !.pc = "listed", !.rows = rows]

\* what the caller of a watched handler sees when the handler returns nil
ReturnedNil(frame) == IF frame.watched THEN <<NoError>> ELSE callResult

\* part_003: UpsertTarget up to its store write: a rejected call or a failed
\* write returns the error and changes nothing
UpsertTarget(name, address, port, written, watched) ==
    /\ handled < MaxHandled
    /\ IF UpsertTargetError(name, address, port, written) # NoError
       THEN UNCHANGED <<store, admin, handled>>
       ELSE /\ store' = upsertTarget(store, TrimSpace(name), TrimSpace(address), port)
            /\ admin' = admin \cup {Written(handled + 1, watched)}
            /\ handled' = handled + 1
    /\ UNCHANGED <<targets, maxParallel, cancelled, runPC, listing, snapshot, probes,
                   eventsCh, appended, delivered>>

\* part_003: DeleteTarget up to its store write
DeleteTarget(name, written, watched) ==
    /\ handled < MaxHandled
    /\ IF DeleteTargetError(name, written) # NoError
       THEN UNCHANGED <<store, admin, handled>>
       ELSE /\ store' = deleteTarget(store, TrimSpace(name))
            /\ admin' = admin \cup {Written(handled + 1, watched)}
            /\ handled' = handled + 1
    /\ UNCHANGED <<targets, maxParallel, cancelled, runPC, listing, snapshot, probes,
                   eventsCh, appended, delivered>>

\* part_003: syncTargets of a handler, its ListTargets: the rows of the
\* store as it is now; when the listing fails syncTargets returns and the
\* handler returns nil
HandlerLists(frame, listed) ==
    /\ frame \in admin
    /\ frame.pc = "written"
    /\ admin' = IF listed THEN (admin \ {frame}) \cup {Listed(frame, ListTargets(store))}
                ELSE admin \ {frame}
    /\ callResult' = IF listed THEN callResult ELSE ReturnedNil(frame)
    /\ UNCHANGED <<store, targets, maxParallel, cancelled, runPC, listing, snapshot,
                   probes, eventsCh, appended, delivered, handled>>
    /\ UNCHANGED <<now, alertState, reported, callArgs, dashboardVars>>

\* part_003: syncTargets of a handler, the rebuild under the lock, after
\* which the handler returns nil; the tasks in flight keep the objects they
\* hold
HandlerSync(frame) ==
    /\ frame \in admin
    /\ frame.pc = "listed"
    /\ targets' = syncTargets(targets, frame.rows)
    /\ snapshot' = [i \in DOMAIN snapshot |-> Relink(snapshot[i], targets, frame.rows)]
    /\ admin' = admin \ {frame}
    /\ callResult' = ReturnedNil(frame)
    /\ UNCHANGED <<store, maxParallel, cancelled, runPC, listing, probes, eventsCh,
                   appended, delivered, handled>>
    /\ UNCHANGED <<now, alertState, reported, callArgs, dashboardVars>>

----------------------------------------------------------------------------
(* The alert consolidator on its own *)

\* NewAlertManager: nothing is pending, nothing was sent
AlertStart ==
    /\ now = 0
    /\ pendingDown = <<>>
    /\ pendingGroup = [reason \in Reasons |-> <<>>]
    /\ nextMessageID = 1
    /\ phase = "idle"
    /\ lastBatch = <<>>
    /\ calls = <<>>
    /\ prevDown = <<>>
    /\ prevGroup = [reason \in Reasons |-> <<>>]
    /\ editedBefore = {}
    /\ reported = [n \in TargetNames |-> "none"]

\* the process has no dashboard
NoDashboard == auth = <<>> /\ limiter = <<>>

\* no function is applied on its own
NoCall == callArgs = <<>> /\ callResult = <<>>

AlertInit ==
    /\ AlertStart
    /\ NoDashboard
    /\ NoCall
    /\ notifier \in BOOLEAN
    /\ EngineInit({}, 0)

\* alerts.go: AlertManager.SendBatch, called with `events`
SendBatch(events) ==
    /\ phase = "idle"
    /\ \E run \in SendBatchRuns(
                    [pendingDown |-> pendingDown, pendingGroup |-> pendingGroup,
                     nextMessageID |-> nextMessageID, calls |-> <<>>,
                     remaining |-> <<>>, groupedRecoveries |-> <<>>], events) :
          /\ pendingDown' = run.pendingDown
          /\ pendingGroup' = run.pendingGroup
          /\ nextMessageID' = run.nextMessageID
          /\ calls' = run.calls
    /\ lastBatch' = events
    /\ prevDown' = pendingDown
    /\ prevGroup' = pendingGroup
    /\ phase' = "sent"
    /\ UNCHANGED <<now, notifier, editedBefore>>

\* the caller goes on after SendBatch returned; what the call did is
\* no longer looked at
Returned ==
    /\ phase = "sent"
    /\ phase' = "idle"
    /\ lastBatch' = <<>>
    /\ calls' = <<>>
    /\ prevDown' = <<>>
    /\ prevGroup' = [reason \in Reasons |-> <<>>]
    /\ UNCHANGED <<now, notifier, pendingDown, pendingGroup, nextMessageID,
                   editedBefore, reported, callArgs, callResult, dashboardVars>>
    /\ UNCHANGED engineVars

\* the same, by a caller that keeps the recoveries the call turned into a
\* single-target edit, to hand them to SendBatch again
ReturnedNoted ==
    /\ phase = "sent"
    /\ phase' = "idle"
    /\ lastBatch' = <<>>
    /\ calls' = <<>>
    /\ prevDown' = <<>>
    /\ prevGroup' = [reason \in Reasons |-> <<>>]
    /\ editedBefore' = {[event |-> ev, messageID |-> prevDown[ev.Target].MessageID] :
                        ev \in {e \in Range(lastBatch) :
                            /\ e.Target \in DOMAIN prevDown
                            /\ \E i \in DOMAIN calls :
                                  /\ calls[i].op = "EditDefaultHTML"
                                  /\ calls[i].messageID = prevDown[e.Target].MessageID
                                  /\ calls[i].ok}}
    /\ UNCHANGED <<now, notifier, pendingDown, pendingGroup, nextMessageID, reported,
                   callArgs, callResult, dashboardVars>>
    /\ UNCHANGED engineVars

CallSendBatch ==
    /\ \E shapes \in BatchShapes : SendBatch(BatchAt(shapes, now))
    /\ UNCHANGED <<engineVars, reported, callArgs, callResult, dashboardVars>>

\* time passes; an event that occurs later is not the event edited before
Tick ==
    /\ phase = "idle"
    /\ \E later \in Times : later > now /\ now' = later
    /\ editedBefore' = {}
    /\ UNCHANGED <<notifier, pendingDown, pendingGroup, nextMessageID, phase,
                   lastBatch, calls, prevDown, prevGroup, reported, callArgs, callResult, dashboardVars>>
    /\ UNCHANGED engineVars

AlertNext == CallSendBatch \/ Returned \/ Tick

SpecAlert == AlertInit /\ [][AlertNext]_vars

\* the consolidator, looked at for the records it keeps of the DOWN
\* messages it sent
SpecPending == AlertInit /\ [][AlertNext]_vars

\* the same behaviours, for the properties of the consumption of pending
\* groups and of the handling of every event
SpecConsume == AlertInit /\ [][AlertNext]_vars

\* the consolidator with a caller that replays recoveries
ReplayNext == CallSendBatch \/ ReturnedNoted \/ Tick

SpecReplay == AlertInit /\ [][ReplayNext]_vars

----------------------------------------------------------------------------
(* The engine on its own: onEvents is a callback that keeps nothing *)

Discard(events) == UNCHANGED alertVars

\* the target lists the engine is configured with
Configurations == {{}, TargetNames}

\* the seconds at which a cycle of the engine starts
CycleTimes == {0, 1}

\* the values MaxParallelChecks is configured with
ParallelChoices == {0, 1}

EngineSpecInit ==
    /\ AlertStart
    /\ NoDashboard
    /\ NoCall
    /\ notifier = FALSE
    /\ \E configured \in Configurations, parallel \in ParallelChoices :
          EngineInit(configured, parallel)

StartRun == \E listed \in BOOLEAN : Run(listed)

NextTick == \E listed \in BOOLEAN, later \in CycleTimes : TickerFires(listed, later)

ProbeApplies == \E i \in 1..Cardinality(TargetNames), status \in BOOLEAN : ApplyStatus(i, status)

ProbeLogs == \E i \in 1..Cardinality(TargetNames), stored \in BOOLEAN : AppendLog(i, stored)

ProbePublishes == \E i \in 1..Cardinality(TargetNames) : PublishEvent(i)

ProbeReleases == \E i \in 1..Cardinality(TargetNames) : ReleaseToken(i)

ProbeReturns == \E i \in 1..Cardinality(TargetNames) : TaskDone(i)

\* the arguments of UpsertTarget: the valid ones, and an empty name, an
\* empty address and the ports next to the valid range
UpsertInputs ==
    {<<name, DefaultAddress(name), port>> : name \in TargetNames, port \in Ports}
    \cup {<<"", DefaultAddress("a"), DefaultPort>>, <<"a", "", DefaultPort>>,
          <<Blank, DefaultAddress("a"), DefaultPort>>, <<"a", Blank, DefaultPort>>,
          <<PaddedA, DefaultAddress("a"), DefaultPort + 1>>,
          <<"a", DefaultAddress("a"), 0>>, <<"a", DefaultAddress("a"), 65536>>,
          <<"a", DefaultAddress("a"), 0 - 1>>}

\* the arguments of DeleteTarget
DeleteInputs == TargetNames \cup {"", Blank, PaddedA}

CallUpsertTarget ==
    /\ \E input \in UpsertInputs, written \in BOOLEAN :
          UpsertTarget(input[1], input[2], input[3], written, FALSE)
    /\ UNCHANGED alertVars

CallDeleteTarget ==
    /\ \E name \in DeleteInputs, written \in BOOLEAN : DeleteTarget(name, written, FALSE)
    /\ UNCHANGED alertVars

HandlerListing == \E frame \in admin, listed \in BOOLEAN : HandlerLists(frame, listed)

HandlerRebuild == \E frame \in admin : HandlerSync(frame)

EngineCallback == InvokeOnEvents /\ Discard(eventsCh)

EngineNext ==
    \/ StartRun
    \/ NextTick
    \/ CtxDone
    \/ Cancel
    \/ SyncTargets
    \/ TakeSnapshot
    \/ LoopHead
    \/ Launch
    \/ ProbeApplies
    \/ ProbeLogs
    \/ ProbePublishes
    \/ ProbeReleases
    \/ ProbeReturns
    \/ EngineCallback
    \/ CallUpsertTarget
    \/ CallDeleteTarget
    \/ HandlerListing
    \/ HandlerRebuild

SpecEngine == EngineSpecInit /\ [][EngineNext]_vars

----------------------------------------------------------------------------
(* The service: Run hands every batch to the consolidator.  The store and  *)
(* the history work, and the handlers change targets at any moment.        *)

\* RunMonitor: the callback Run is given
onEvents(events) ==
    /\ SendBatch(events)
    /\ reported' = [n \in TargetNames |->
                       IF \E i \in DOMAIN events :
                            events[i].Target = n /\ events[i].Kind = "DOWN"
                       THEN LET i == CHOOSE i \in DOMAIN events :
                                        events[i].Target = n /\ events[i].Kind = "DOWN"
                            IN  events[i].Reason
                       ELSE reported[n]]
    /\ UNCHANGED <<callArgs, callResult, dashboardVars>>

\* the seconds at which a cycle of the service starts
ServiceTimes == Times \cup {FastRecoveryWindow}

ServiceInit ==
    /\ AlertStart
    /\ NoDashboard
    /\ NoCall
    /\ notifier = TRUE
    /\ EngineInit(TargetNames, 0)

ServiceStartRun == Run(TRUE)

ServiceTick == \E later \in ServiceTimes : TickerFires(TRUE, later)

ServiceProbeLogs == \E i \in 1..Cardinality(TargetNames) : AppendLog(i, TRUE)

ServiceUpsertTarget ==
    /\ \E name \in TargetNames, port \in Ports :
          UpsertTarget(name, DefaultAddress(name), port, TRUE, FALSE)
    /\ UNCHANGED alertVars

ServiceDeleteTarget ==
    /\ \E name \in TargetNames : DeleteTarget(name, TRUE, FALSE)
    /\ UNCHANGED alertVars

ServiceHandlerListing == \E frame \in admin : HandlerLists(frame, TRUE)

ServiceCallback == InvokeOnEvents /\ onEvents(eventsCh)

ServiceNext ==
    \/ ServiceStartRun
    \/ ServiceTick
    \/ SyncTargets
    \/ TakeSnapshot
    \/ LoopHead
    \/ Launch
    \/ ProbeApplies
    \/ ServiceProbeLogs
    \/ ProbePublishes
    \/ ProbeReleases
    \/ ProbeReturns
    \/ ServiceCallback
    \/ Returned
    \/ ServiceUpsertTarget
    \/ ServiceDeleteTarget
    \/ ServiceHandlerListing
    \/ HandlerRebuild

SpecService == ServiceInit /\ [][ServiceNext]_vars

----------------------------------------------------------------------------
(* The process from start to start: main seeds the store from the          *)
(* configured targets and builds the engine, the handlers change the       *)
(* definitions while it runs, and it is stopped and started again          *)

\* config.go: the configured targets of a set of names, in the order of
\* the names
ConfigOf(names) ==
    LET sorted == Ascending(names)
    IN  [i \in 1..Len(sorted) |->
            [Name |-> sorted[i], Address |-> DefaultAddress(sorted[i]),
             Port |-> DefaultPort]]

\* main.go: seedTargets, the loop of the writes
RECURSIVE SeedLoop(_, _)
SeedLoop(definitions, items) ==
    IF items = <<>> THEN definitions
    ELSE SeedLoop(upsertTarget(definitions, items[1].Name, items[1].Address,
                               items[1].Port),
                  Tail(items))

\* main.go: seedTargets, the store as it is left; `listed` tells whether
\* ListTargets answers and `written` how many writes the store accepts
seedTargets(definitions, items, listed, written) ==
    IF Len(items) = 0 THEN definitions
    ELSE IF ~listed THEN definitions
    ELSE IF Len(ListTargets(definitions)) > 0 THEN definitions
    ELSE SeedLoop(definitions,
                  SubSeq(items, 1, IF written < Len(items) THEN written ELSE Len(items)))

\* main.go: seedTargets, the error returned
seedTargetsError(definitions, items, listed, written) ==
    IF Len(items) = 0 THEN NoError
    ELSE IF ~listed THEN "store: list failed"
    ELSE IF Len(ListTargets(definitions)) > 0 THEN NoError
    ELSE IF written < Len(items) THEN StoreError
    ELSE NoError

\* part_003: buildTargetsFromConfig
buildTargetsFromConfig(items) ==
    SortByName([i \in 1..Len(items) |->
                   TargetState(items[i].Name, items[i].Address, items[i].Port)])

\* the configured targets of the process
Configured == callArgs[1]

Running == runPC = "start"

\* a new database, and a process that is not running
SeedInit ==
    /\ AlertStart
    /\ NoDashboard
    /\ notifier = FALSE
    /\ callArgs \in {<<ConfigOf(names)>> : names \in SUBSET TargetNames}
    /\ callResult = <<>>
    /\ store = <<>>
    /\ targets = <<>>
    /\ maxParallel = 0
    /\ cancelled = FALSE
    /\ runPC = "stopped"
    /\ listing = NoListing
    /\ snapshot = <<>>
    /\ probes = <<>>
    /\ eventsCh = <<>>
    /\ appended = [n \in TargetNames |-> <<>>]
    /\ delivered = <<>>
    /\ admin = {}
    /\ handled = 0

\* main.go: main: seedTargets, and tracker.New when it returned no error;
\* the process exits otherwise
Start(listed, written) ==
    /\ runPC = "stopped"
    /\ store' = seedTargets(store, Configured, listed, written)
    /\ callResult' = <<seedTargetsError(store, Configured, listed, written)>>
    /\ IF seedTargetsError(store, Configured, listed, written) = NoError
       THEN /\ runPC' = "start"
            /\ targets' = buildTargetsFromConfig(Configured)
       ELSE UNCHANGED <<runPC, targets>>
    /\ UNCHANGED <<maxParallel, cancelled, listing, snapshot, probes, eventsCh,
                   appended, delivered, admin, handled>>
    /\ UNCHANGED <<now, alertState, reported, callArgs, dashboardVars>>

\* the process is stopped; the registry is gone with it
Stop ==
    /\ Running
    /\ runPC' = "stopped"
    /\ targets' = <<>>
    /\ admin' = {}
    /\ callResult' = <<>>
    /\ UNCHANGED <<store, maxParallel, cancelled, listing, snapshot, probes, eventsCh,
                   appended, delivered, handled>>
    /\ UNCHANGED <<now, alertState, reported, callArgs, dashboardVars>>

StartProcess ==
    \E listed \in BOOLEAN, written \in 0..Cardinality(TargetNames) : Start(listed, written)

SeedNext ==
    \/ StartProcess
    \/ Stop
    \/ Running /\ CallUpsertTarget
    \/ Running /\ CallDeleteTarget
    \/ HandlerListing
    \/ HandlerRebuild

SpecSeed == SeedInit /\ [][SeedNext]_vars

----------------------------------------------------------------------------
(* The service with a transport and a history that fail at will, and with  *)
(* no change of the target definitions                                      *)

OutageNext ==
    \/ ServiceStartRun
    \/ ServiceTick
    \/ SyncTargets
    \/ TakeSnapshot
    \/ LoopHead
    \/ Launch
    \/ ProbeApplies
    \/ ProbeLogs
    \/ ProbePublishes
    \/ ProbeReleases
    \/ ProbeReturns
    \/ ServiceCallback
    \/ Returned

SpecOutage == ServiceInit /\ [][OutageNext]_vars

----------------------------------------------------------------------------
(* The consolidator given batches in any order of the targets, as the      *)
(* tasks of a cycle finish, and with a kind that is neither DOWN nor       *)
(* RECOVERED among them: a first batch, and a second one a second later    *)

OtherKind == "INFO"

DispatchShapes == EventShapes \cup {<<OtherKind, "state-change">>}

\* the targets of a batch in the order of their events
Orders ==
    {order \in UNION {[1..n -> Targets] : n \in 0..Len(TargetOrder)} :
        \A i, j \in DOMAIN order : order[i] = order[j] => i = j}

AnyOrderShapes ==
    {[i \in DOMAIN order |->
        [Kind |-> choice[order[i]][1], Target |-> order[i], Reason |-> choice[order[i]][2]]]
     : order \in Orders, choice \in [Targets -> DispatchShapes]}

\* the second at which the last batch comes
LastDispatchTime == 1

CallAnyBatch ==
    /\ \E shapes \in AnyOrderShapes : SendBatch(BatchAt(shapes, now))
    /\ UNCHANGED <<engineVars, reported, callArgs, callResult, dashboardVars>>

\* SendBatch has returned and the next batch comes a second later
NextSecond ==
    /\ phase = "sent"
    /\ now < LastDispatchTime
    /\ now' = now + 1
    /\ phase' = "idle"
    /\ lastBatch' = <<>>
    /\ calls' = <<>>
    /\ prevDown' = <<>>
    /\ prevGroup' = [reason \in Reasons |-> <<>>]
    /\ UNCHANGED <<notifier, pendingDown, pendingGroup, nextMessageID, editedBefore,
                   reported, callArgs, callResult, dashboardVars>>
    /\ UNCHANGED engineVars

DispatchInit ==
    /\ AlertStart
    /\ NoDashboard
    /\ NoCall
    /\ notifier = TRUE
    /\ EngineInit({}, 0)

DispatchNext == CallAnyBatch \/ NextSecond

SpecDispatch == DispatchInit /\ [][DispatchNext]_vars

----------------------------------------------------------------------------
(* The engine with the target handlers as their caller sees them: one call *)
(* at a time is looked at, from the moment it is made until its caller has *)
(* seen what it returned; other calls and the cycles of Run go on meanwhile *)

\* the call looked at; `call` is the number its store write gets when the
\* call is not rejected
UpsertCall(input) ==
    <<[op |-> "UpsertTarget", name |-> input[1], address |-> input[2], port |-> input[3],
       call |-> handled + 1]>>

DeleteCall(name) ==
    <<[op |-> "DeleteTarget", name |-> name, address |-> "", port |-> 0,
       call |-> handled + 1]>>

\* part_003: UpsertTarget is called; an error is returned at once
ObservedUpsertTarget ==
    /\ NoCall
    /\ \E input \in UpsertInputs, written \in BOOLEAN :
          /\ UpsertTarget(input[1], input[2], input[3], written, TRUE)
          /\ callArgs' = UpsertCall(input)
          /\ callResult' =
                IF UpsertTargetError(input[1], input[2], input[3], written) = NoError
                THEN <<>>
                ELSE <<UpsertTargetError(input[1], input[2], input[3], written)>>
    /\ UNCHANGED <<now, alertState, reported, dashboardVars>>

\* part_003: DeleteTarget is called; an error is returned at once
ObservedDeleteTarget ==
    /\ NoCall
    /\ \E name \in DeleteInputs, written \in BOOLEAN :
          /\ DeleteTarget(name, written, TRUE)
          /\ callArgs' = DeleteCall(name)
          /\ callResult' = IF DeleteTargetError(name, written) = NoError THEN <<>>
                           ELSE <<DeleteTargetError(name, written)>>
    /\ UNCHANGED <<now, alertState, reported, dashboardVars>>

\* the caller has seen what the handler returned and stops looking at the call
HandlerReturns ==
    /\ callResult # <<>>
    /\ callArgs' = <<>>
    /\ callResult' = <<>>
    /\ UNCHANGED <<now, alertState, reported, engineVars, dashboardVars>>

HandlersNext ==
    \/ StartRun
    \/ NextTick
    \/ SyncTargets
    \/ TakeSnapshot
    \/ LoopHead
    \/ Launch
    \/ ProbeApplies
    \/ ProbeLogs
    \/ ProbePublishes
    \/ ProbeReleases
    \/ ProbeReturns
    \/ EngineCallback
    \/ CallUpsertTarget
    \/ CallDeleteTarget
    \/ ObservedUpsertTarget
    \/ ObservedDeleteTarget
    \/ HandlerListing
    \/ HandlerRebuild
    \/ HandlerReturns

SpecHandlers == EngineSpecInit /\ [][HandlersNext]_vars

----------------------------------------------------------------------------
(* defaultWorkers on its own *)

\* the values of MaxParallelChecks: none, small ones and those next to the
\* hard limit
WorkerValues ==
    (0 - 1)..3 \cup (maxParallelChecksHardLimit - 1)..(maxParallelChecksHardLimit + 2)

\* the lengths of the slice of a cycle
WorkerCounts ==
    0..3 \cup (maxParallelChecksHardLimit - 1)..(maxParallelChecksHardLimit + 2)

\* everything but the call of the function
restOfState == <<now, alertState, reported, engineVars, dashboardVars>>

WorkersInit ==
    /\ AlertStart
    /\ NoDashboard
    /\ notifier = FALSE
    /\ EngineInit({}, 0)
    /\ callArgs \in {<<call>> : call \in [value : WorkerValues, targetCount : WorkerCounts]}
    /\ callResult = <<>>

\* part_003: runChecks computes the worker count of the cycle
CallDefaultWorkers ==
    /\ callResult = <<>>
    /\ callResult' = <<defaultWorkers(callArgs[1].value, callArgs[1].targetCount)>>
    /\ UNCHANGED <<callArgs, restOfState>>

SpecWorkers == WorkersInit /\ [][CallDefaultWorkers]_vars

----------------------------------------------------------------------------
(* The engine with Snapshot called from outside at any moment: the call    *)
(* holds the read lock, so it sees the registry between two steps of the   *)
(* tasks and the syncs                                                     *)

\* plausible slip: a target never checked is counted as down
StatusCountedUnknownAsDown(target) ==
    IF target.LastStatus = <<>> THEN "DOWN"
    ELSE IF target.LastStatus[1] THEN "UP"
    ELSE "DOWN"

\* part_003: Snapshot, the counter a target is counted in
StatusCounted(target) ==
    IF target.LastStatus = <<>> THEN "UNKNOWN"
    ELSE IF target.LastStatus[1] THEN "UP"
    ELSE "DOWN"

\* part_003: Snapshot, the state written into the entry of a target
StatusShown(target) ==
    IF target.LastStatus = <<>> THEN "UNKNOWN"
    ELSE IF target.LastStatus[1] THEN "UP"
    ELSE "DOWN"

CountOf(registry, state) ==
    Cardinality({i \in 1..Len(registry) : StatusCounted(registry[i]) = state})

\* part_003: Snapshot
Snapshot(registry, at) ==
    [GeneratedAt |-> at,
     Total   |-> Len(registry),
     Up      |-> CountOf(registry, "UP"),
     Down    |-> CountOf(registry, "DOWN"),
     Unknown |-> CountOf(registry, "UNKNOWN"),
     Targets |-> [i \in 1..Len(registry) |->
                     [Name |-> registry[i].Name, Address |-> registry[i].Address,
                      Port |-> registry[i].Port, Status |-> StatusShown(registry[i]),
                      LastChanged |-> registry[i].LastChanged,
                      LastChecked |-> registry[i].LastChecked]]]

CallSnapshot ==
    /\ NoCall
    /\ callArgs' = <<[op |-> "Snapshot"]>>
    /\ callResult' = <<Snapshot(targets, now)>>
    /\ UNCHANGED restOfState

\* the caller has looked at the snapshot
SnapshotReturns ==
    /\ callResult # <<>>
    /\ callArgs' = <<>>
    /\ callResult' = <<>>
    /\ UNCHANGED restOfState

SnapshotNext ==
    \/ NoCall /\ StartRun
    \/ NoCall /\ NextTick
    \/ NoCall /\ SyncTargets
    \/ NoCall /\ TakeSnapshot
    \/ NoCall /\ LoopHead
    \/ NoCall /\ Launch
    \/ NoCall /\ ProbeApplies
    \/ NoCall /\ ProbeLogs
    \/ NoCall /\ ProbePublishes
    \/ NoCall /\ ProbeReleases
    \/ NoCall /\ ProbeReturns
    \/ NoCall /\ EngineCallback
    \/ NoCall /\ CallUpsertTarget
    \/ NoCall /\ CallDeleteTarget
    \/ NoCall /\ HandlerListing
    \/ NoCall /\ HandlerRebuild
    \/ CallSnapshot
    \/ SnapshotReturns

SpecSnapshot == EngineSpecInit /\ [][SnapshotNext]_vars

----------------------------------------------------------------------------
(* The dashboard's authManager behind /auth/verify.  callArgs and          *)
(* callResult hold the requests made so far and their answers.             *)

\* the most requests looked at
MaxCalls == 4

\* the second at which the last request is made
LastRequestTime == 3

\* auth.go: randomToken: a string that was not handed out before (with the
\* Go release the image is built with, rand.Read does not return an error)
randomToken(prefix, n) == prefix \o ToString(n)

\* auth.go: newAuthManager
newAuthManager(tokenTTL, sessionTTL) ==
    [tokenTTL |-> tokenTTL, sessionTTL |-> sessionTTL, tokens |-> <<>>, sessions |-> <<>>]

\* time.Time.After
After(left, right) == left > right

\* auth.go: cleanup
cleanup(m, at) ==
    [m EXCEPT
        !.tokens = [t \in {t \in DOMAIN m.tokens : ~After(at, m.tokens[t])} |-> m.tokens[t]],
        !.sessions = [id \in {id \in DOMAIN m.sessions :
                                 ~After(at, m.sessions[id] + m.sessionTTL)}
                      |-> m.sessions[id]]]

\* auth.go: IssueToken, the manager as it is left; `token` is the token
\* made and returned
IssueToken(m, at, token) ==
    [cleanup(m, at) EXCEPT !.tokens = MapPut(@, token, at + m.tokenTTL)]

\* plausible slip: a token that was accepted stays in the map
ConsumeTokenKeepsToken(m, at, token, sessionID) ==
    LET cleaned == cleanup(m, at)
    IN  IF token \notin DOMAIN cleaned.tokens \/ After(at, cleaned.tokens[token])
        THEN [auth |-> [cleaned EXCEPT !.tokens = MapDelete(@, token)],
              sessionID |-> "", ok |-> FALSE]
        ELSE [auth |-> [cleaned EXCEPT !.sessions = MapPut(@, sessionID, at)],
              sessionID |-> sessionID, ok |-> TRUE]

\* auth.go: ConsumeToken: the manager as it is left and what is returned;
\* `sessionID` is the identifier createSessionLocked makes
ConsumeToken(m, at, token, sessionID) ==
    LET cleaned == cleanup(m, at)
    IN  IF token \notin DOMAIN cleaned.tokens \/ After(at, cleaned.tokens[token])
        THEN [auth |-> [cleaned EXCEPT !.tokens = MapDelete(@, token)],
              sessionID |-> "", ok |-> FALSE]
        ELSE [auth |-> [cleaned EXCEPT !.tokens = MapDelete(@, token),
                                       !.sessions = MapPut(@, sessionID, at)],
              sessionID |-> sessionID, ok |-> TRUE]

\* auth.go: CreateSession, the manager as it is left; `sessionID` is the
\* identifier createSessionLocked makes
CreateSession(m, at, sessionID) ==
    [cleanup(m, at) EXCEPT !.sessions = MapPut(@, sessionID, at)]

\* auth.go: Session: the manager as it is left and what is returned
Session(m, at, sessionID) ==
    LET cleaned == cleanup(m, at)
    IN  IF sessionID \notin DOMAIN cleaned.sessions
        THEN [auth |-> cleaned, expiresAt |-> ZeroTime, ok |-> FALSE]
        ELSE IF After(at, cleaned.sessions[sessionID] + m.sessionTTL)
        THEN [auth |-> [cleaned EXCEPT !.sessions = MapDelete(@, sessionID)],
              expiresAt |-> ZeroTime, ok |-> FALSE]
        ELSE [auth |-> cleaned, expiresAt |-> cleaned.sessions[sessionID] + m.sessionTTL,
              ok |-> TRUE]

\* auth.go: RevokeSession
RevokeSession(m, sessionID) ==
    IF sessionID = "" THEN m ELSE [m EXCEPT !.sessions = MapDelete(@, sessionID)]

TokensIssued == Cardinality({i \in DOMAIN callArgs : callArgs[i].op = "NewAuthLink"})

\* the requests that were answered with a new session
SessionsMade ==
    Cardinality({i \in DOMAIN callResult :
                    \/ callResult[i].code = 302
                    \/ callArgs[i].op = "handleTelegramMiniAppAuth" /\ callResult[i].code = 200})

Request(op, method, token) == [op |-> op, at |-> now, method |-> method, token |-> token]

Answer(code, value) == [code |-> code, value |-> value]

\* server.go: NewAuthLink with a public URL: a token is issued and put into
\* the link
NewAuthLink ==
    /\ Len(callArgs) < MaxCalls
    /\ LET token == randomToken("t", TokensIssued + 1)
       IN  /\ auth' = IssueToken(auth, now, token)
           /\ callArgs' = Append(callArgs, Request("NewAuthLink", "", ""))
           /\ callResult' = Append(callResult, Answer(0, token))
    /\ UNCHANGED <<now, alertState, reported, engineVars, limiter>>

\* server.go: handleAuthVerify, with the status code of the answer and the
\* session put into the cookie
handleAuthVerify(method, rawToken) ==
    /\ Len(callArgs) < MaxCalls
    /\ callArgs' = Append(callArgs, Request("handleAuthVerify", method, rawToken))
    /\ LET token == TrimSpace(rawToken)
           consumed == ConsumeToken(auth, now, token, randomToken("s", SessionsMade + 1))
       IN  IF token = ""
           THEN auth' = auth /\ callResult' = Append(callResult, Answer(400, ""))
           ELSE IF method = "GET"
           THEN auth' = auth /\ callResult' = Append(callResult, Answer(200, ""))
           ELSE IF method # "POST"
           THEN auth' = auth /\ callResult' = Append(callResult, Answer(405, ""))
           ELSE /\ auth' = consumed.auth
                /\ callResult' = Append(callResult,
                                        IF consumed.ok THEN Answer(302, consumed.sessionID)
                                        ELSE Answer(401, ""))
    /\ UNCHANGED <<now, alertState, reported, engineVars, limiter>>

\* the requests made: the methods GET, POST and another one with the first
\* token issued, and POST with the second token and with white space
VerifyRequests ==
    {<<"GET", randomToken("t", 1)>>, <<"POST", randomToken("t", 1)>>,
     <<"DELETE", randomToken("t", 1)>>, <<"POST", randomToken("t", 2)>>,
     <<"POST", Blank>>}

CallHandleAuthVerify ==
    \E request \in VerifyRequests : handleAuthVerify(request[1], request[2])

\* server.go: handleTelegramMiniAppAuth; `checked` is the status code of
\* the tests made before a session is created (400 when the mini app is
\* off or the body is no JSON, 401 when the init data do not verify), 0 when
\* they pass
handleTelegramMiniAppAuth(method, checked) ==
    /\ Len(callArgs) < MaxCalls
    /\ callArgs' = Append(callArgs, Request("handleTelegramMiniAppAuth", method, ""))
    /\ LET sessionID == randomToken("s", SessionsMade + 1)
       IN  IF method # "POST"
           THEN auth' = auth /\ callResult' = Append(callResult, Answer(405, ""))
           ELSE IF checked # 0
           THEN auth' = auth /\ callResult' = Append(callResult, Answer(checked, ""))
           ELSE /\ auth' = CreateSession(auth, now, sessionID)
                /\ callResult' = Append(callResult, Answer(200, sessionID))
    /\ UNCHANGED <<now, alertState, reported, engineVars, limiter>>

\* server.go: sessionIDFromRequest on the value of the session cookie
sessionIDFromRequest(cookie) ==
    [value |-> IF TrimSpace(cookie) = "" THEN "" ELSE TrimSpace(cookie),
     ok |-> TrimSpace(cookie) # ""]

\* server.go: handleAuthLogout
handleAuthLogout(cookie) ==
    /\ Len(callArgs) < MaxCalls
    /\ callArgs' = Append(callArgs, Request("handleAuthLogout", "POST", cookie))
    /\ auth' = IF sessionIDFromRequest(cookie).ok
               THEN RevokeSession(auth, sessionIDFromRequest(cookie).value)
               ELSE auth
    /\ callResult' = Append(callResult, Answer(200, ""))
    /\ UNCHANGED <<now, alertState, reported, engineVars, limiter>>

\* server.go: handleAuthSession, and requireAuth in front of a handler
handleAuthSession(cookie) ==
    /\ Len(callArgs) < MaxCalls
    /\ callArgs' = Append(callArgs, Request("handleAuthSession", "GET", cookie))
    /\ LET id == sessionIDFromRequest(cookie)
           found == Session(auth, now, id.value)
       IN  IF ~id.ok
           THEN auth' = auth /\ callResult' = Append(callResult, Answer(401, ""))
           ELSE /\ auth' = found.auth
                /\ callResult' = Append(callResult,
                                        IF found.ok THEN Answer(200, "") ELSE Answer(401, ""))
    /\ UNCHANGED <<now, alertState, reported, engineVars, limiter>>

\* the mini app requests made: a GET, and a POST whose init data verify
MiniAppRequests == {<<"GET", 0>>, <<"POST", 0>>}

\* the session cookies sent: none, and the first session made
Cookies == {"", randomToken("s", 1)}

CallHandleTelegramMiniAppAuth ==
    \E request \in MiniAppRequests : handleTelegramMiniAppAuth(request[1], request[2])

CallHandleAuthLogout == \E cookie \in Cookies : handleAuthLogout(cookie)

CallHandleAuthSession == \E cookie \in Cookies : handleAuthSession(cookie)

\* a second passes between two requests
RequestClock ==
    /\ now < LastRequestTime
    /\ now' = now + 1
    /\ UNCHANGED <<alertState, reported, callArgs, callResult, engineVars, dashboardVars>>

\* server.go: New: the token TTL is configured, a session lasts longer
AuthInit ==
    /\ AlertStart
    /\ NoCall
    /\ notifier = FALSE
    /\ EngineInit({}, 0)
    /\ \E tokenTTL \in {1, 2} : auth = newAuthManager(tokenTTL, tokenTTL + 1)
    /\ limiter = <<>>

AuthNext ==
    \/ NewAuthLink
    \/ CallHandleAuthVerify
    \/ CallHandleTelegramMiniAppAuth
    \/ CallHandleAuthLogout
    \/ CallHandleAuthSession
    \/ RequestClock

SpecAuth == AuthInit /\ [][AuthNext]_vars

----------------------------------------------------------------------------
(* A rateLimiter on its own.  callArgs and callResult hold the Allow calls *)
(* made so far and what they returned.                                     *)

\* ratelimit.go: newRateLimiter (time.Minute is 60 seconds)
newRateLimiter(limit, window) ==
    [window |-> IF window <= 0 THEN 60 ELSE window,
     limit |-> IF limit <= 0 THEN 1 ELSE limit,
     clients |-> <<>>]

\* ratelimit.go: cleanup
cleanupClients(l, at) ==
    [l EXCEPT !.clients = [key \in {k \in DOMAIN l.clients :
                                       ~(at - l.clients[k].start >= l.window)}
                           |-> l.clients[key]]]

\* plausible slip: the call that reaches the limit is not the last one
\* allowed
AllowOneMore(l, at, key) ==
    IF key = "" THEN [limiter |-> l, ok |-> TRUE]
    ELSE LET cleaned == cleanupClients(l, at)
         IN  IF \/ key \notin DOMAIN cleaned.clients
                \/ at - cleaned.clients[key].start >= cleaned.window
             THEN [limiter |-> [cleaned EXCEPT !.clients =
                                   MapPut(@, key, [start |-> at, count |-> 1])],
                   ok |-> TRUE]
             ELSE IF cleaned.clients[key].count > cleaned.limit
             THEN [limiter |-> cleaned, ok |-> FALSE]
             ELSE [limiter |-> [cleaned EXCEPT !.clients[key].count = @ + 1],
                   ok |-> TRUE]

\* ratelimit.go: Allow: the limiter as it is left and what is returned
Allow(l, at, key) ==
    IF key = "" THEN [limiter |-> l, ok |-> TRUE]
    ELSE LET cleaned == cleanupClients(l, at)
         IN  IF \/ key \notin DOMAIN cleaned.clients
                \/ at - cleaned.clients[key].start >= cleaned.window
             THEN [limiter |-> [cleaned EXCEPT !.clients =
                                   MapPut(@, key, [start |-> at, count |-> 1])],
                   ok |-> TRUE]
             ELSE IF cleaned.clients[key].count >= cleaned.limit
             THEN [limiter |-> cleaned, ok |-> FALSE]
             ELSE [limiter |-> [cleaned EXCEPT !.clients[key].count = @ + 1],
                   ok |-> TRUE]

\* the keys of the callers: none, and two addresses
LimiterKeys == {"", "10.0.0.1", "10.0.0.2"}

\* the seconds of the calls: the first ones, and those around a minute
LimiterTimes == {0, 1, 2, 3, 60, 61}

CallAllow ==
    /\ Len(callArgs) < MaxCalls
    /\ \E key \in LimiterKeys :
          /\ limiter' = Allow(limiter, now, key).limiter
          /\ callArgs' = Append(callArgs, [op |-> "Allow", at |-> now, key |-> key])
          /\ callResult' = Append(callResult, Allow(limiter, now, key).ok)
    /\ UNCHANGED <<now, alertState, reported, engineVars, auth>>

\* time passes between two calls
LimiterClock ==
    /\ \E later \in LimiterTimes : later > now /\ now' = later
    /\ UNCHANGED <<alertState, reported, callArgs, callResult, engineVars, dashboardVars>>

\* a limiter made with no limit, 1 or 2, and with no window or 2 seconds
LimiterInit ==
    /\ AlertStart
    /\ NoCall
    /\ notifier = FALSE
    /\ EngineInit({}, 0)
    /\ auth = <<>>
    /\ \E limit \in 0..2, window \in {0, 2} : limiter = newRateLimiter(limit, window)

LimiterNext == CallAllow \/ LimiterClock

SpecLimiter == LimiterInit /\ [][LimiterNext]_vars

----------------------------------------------------------------------------
(* formatDurationShort on its own *)

\* the durations formatted, in whole seconds: those around a minute, those
\* around an hour, and some of several hours
DurationsAsked ==
    0..125 \cup 3590..3730 \cup {7199, 7200, 7325, 86399, 86400, 90061}

DurationInit ==
    /\ AlertStart
    /\ NoDashboard
    /\ notifier = FALSE
    /\ EngineInit({}, 0)
    /\ callArgs \in {<<[seconds |-> d]>> : d \in DurationsAsked}
    /\ callResult = <<>>

CallFormatDurationShort ==
    /\ callResult = <<>>
    /\ callResult' = <<formatDurationShort(callArgs[1].seconds)>>
    /\ UNCHANGED <<callArgs, restOfState>>

SpecDuration == DurationInit /\ [][CallFormatDurationShort]_vars

----------------------------------------------------------------------------
(* MonitorEngine.Logs on its own *)

\* plausible slip: the number of days has no ceiling
LogsDaysNoCeiling(days) == IF days <= 0 THEN 7 ELSE days

\* part_003: Logs, the days it reads
LogsDays(days) ==
    IF days <= 0 THEN 7
    ELSE IF days > 365 THEN 365
    ELSE days

\* part_003: Logs, the limit it reads with
LogsLimit(limit) ==
    IF limit <= 0 THEN 200
    ELSE IF limit > 50000 THEN 50000
    ELSE limit

\* part_003: Logs: found, and the ReadLastDays calls it made
Logs(registry, trackName, days, limit) ==
    IF targetByName(registry, trackName) = <<>>
    THEN [found |-> FALSE, reads |-> <<>>]
    ELSE [found |-> TRUE,
          reads |-> <<[Target |-> targetByName(registry, trackName)[1].Name,
                       Days |-> LogsDays(days), Limit |-> LogsLimit(limit)]>>]

\* the names asked for: in the registry or not, one with white space
LogsNames == TargetNames \cup {"c", PaddedA}

\* the days and limits asked for: none, and those next to the ends of the
\* ranges
LogsDaysAsked == {0 - 1, 0, 1, 7, 365, 366}

LogsLimitsAsked == {0 - 1, 0, 1, 200, 50000, 50001}

LogsInit ==
    /\ AlertStart
    /\ NoDashboard
    /\ notifier = FALSE
    /\ \E configured \in Configurations : EngineInit(configured, 0)
    /\ callArgs \in {<<call>> : call \in [trackName : LogsNames, days : LogsDaysAsked,
                                          limit : LogsLimitsAsked]}
    /\ callResult = <<>>

CallLogs ==
    /\ callResult = <<>>
    /\ callResult' = <<Logs(targets, callArgs[1].trackName, callArgs[1].days,
                            callArgs[1].limit)>>
    /\ UNCHANGED <<callArgs, restOfState>>

SpecLogs == LogsInit /\ [][CallLogs]_vars

----------------------------------------------------------------------------
(* The engine with endpoints that are reachable or not for the whole run:  *)
(* what a probe answers is checkTCP's result                               *)

\* the addresses that accept a connection
ReachableHosts == {DefaultAddress("a")}

\* part_003: checkTCP, the results DialContext allows: a dial with a
\* cancelled context fails, unless the connection was made before the
\* context was cancelled
checkTCP(ctxDone, address) ==
    IF address \notin ReachableHosts THEN {FALSE}
    ELSE IF ctxDone THEN {TRUE, FALSE}
    ELSE {TRUE}

\* part_003: a task: checkTCP with the context of the run, then applyStatus
ProbeDials ==
    \E i \in 1..Cardinality(TargetNames) :
        /\ i \in DOMAIN snapshot
        /\ \E status \in checkTCP(cancelled, snapshot[i].Address) : ApplyStatus(i, status)

CancelInit ==
    /\ AlertStart
    /\ NoDashboard
    /\ NoCall
    /\ notifier = FALSE
    /\ \E parallel \in ParallelChoices : EngineInit(TargetNames, parallel)

CancelNext ==
    \/ StartRun
    \/ NextTick
    \/ CtxDone
    \/ Cancel
    \/ SyncTargets
    \/ TakeSnapshot
    \/ LoopHead
    \/ Launch
    \/ ProbeDials
    \/ ProbeLogs
    \/ ProbePublishes
    \/ ProbeReleases
    \/ ProbeReturns
    \/ EngineCallback

SpecCancel == CancelInit /\ [][CancelNext]_vars

----------------------------------------------------------------------------
(* The cycles of Run with the scheduling of the Go runtime: a goroutine    *)
(* that can take a step takes it in the end, and every probe answers,      *)
(* checkTCP having a timeout.  When the context is cancelled and when the  *)
(* next tick falls due is left open.                                       *)

CycleNext ==
    \/ StartRun
    \/ NextTick
    \/ CtxDone
    \/ Cancel
    \/ SyncTargets
    \/ TakeSnapshot
    \/ LoopHead
    \/ Launch
    \/ ProbeApplies
    \/ ProbeLogs
    \/ ProbePublishes
    \/ ProbeReleases
    \/ ProbeReturns
    \/ EngineCallback

CycleFairness ==
    /\ WF_vars(SyncTargets)
    /\ WF_vars(TakeSnapshot)
    /\ WF_vars(LoopHead)
    /\ WF_vars(Launch)
    /\ WF_vars(ProbeApplies)
    /\ WF_vars(ProbeLogs)
    /\ WF_vars(ProbePublishes)
    /\ WF_vars(ProbeReleases)
    /\ WF_vars(ProbeReturns)
    /\ WF_vars(EngineCallback)

SpecCycle == EngineSpecInit /\ [][CycleNext]_vars /\ CycleFairness

----------------------------------------------------------------------------
(* SendBatch step by step, called by two goroutines at once.  callArgs     *)
(* holds one frame per caller: where it is, its events, and after the      *)
(* fast-recovery pass the events that remain and the keys still to send.   *)
(* calls is the sequence of the transport calls of both, in the order in   *)
(* which they were made.                                                    *)

Callers == {1, 2}

\* the batches of the two callers: state changes of the first two targets
LockShapes ==
    {ShapesFrom(choice, 1) :
        choice \in {c \in [Targets -> EventShapes \cup {NoEvent}] :
                        /\ c[TargetOrder[Len(TargetOrder)]] = NoEvent
                        /\ \A name \in Targets : c[name][2] # "initial-check"}}

\* alerts.go:34-36, SendBatch returns at once without a transport or events
Frame(events) ==
    [pc |-> IF ~notifier \/ Len(events) = 0 THEN "returned" ELSE "lock",
     events |-> events, remaining |-> <<>>, order |-> <<>>]

\* the AlertManager as the caller finds it
RunOf(frame) ==
    [pendingDown |-> pendingDown, pendingGroup |-> pendingGroup,
     nextMessageID |-> nextMessageID, calls |-> calls,
     remaining |-> frame.remaining, groupedRecoveries |-> <<>>]

\* a caller is between a.mu.Lock() and the deferred a.mu.Unlock()
Holds(c) == callArgs[c].pc \in {"edits", "dispatch"}

\* plausible slip: SendBatch does not take the lock
MutexFreeAlways == TRUE

\* alerts.go:37, a.mu.Lock() returns when no other caller holds the mutex
MutexFree == \A c \in DOMAIN callArgs : ~Holds(c)

\* what the rest of a step leaves alone
LockFrame ==
    /\ UNCHANGED <<now, notifier, phase, lastBatch, editedBefore, reported,
                   callResult, dashboardVars>>
    /\ UNCHANGED engineVars

\* two goroutines call SendBatch, each with a batch of its own
CallersEnter ==
    /\ phase = "idle"
    /\ callArgs = <<>>
    /\ \E one, other \in LockShapes :
          callArgs' = <<Frame(BatchAt(one, now)), Frame(BatchAt(other, now))>>
    /\ calls' = <<>>
    /\ prevDown' = pendingDown
    /\ prevGroup' = pendingGroup
    /\ UNCHANGED <<pendingDown, pendingGroup, nextMessageID>>
    /\ LockFrame

\* alerts.go:37-38, the caller gets the mutex
Lock(c) ==
    /\ c \in DOMAIN callArgs
    /\ callArgs[c].pc = "lock"
    /\ MutexFree
    /\ callArgs' = [callArgs EXCEPT ![c].pc = "edits"]
    /\ UNCHANGED <<pendingDown, pendingGroup, nextMessageID, calls, prevDown, prevGroup>>
    /\ LockFrame

\* alerts.go:40-62, the fast-recovery pass, the return when nothing remains
\* and the keys in the order of dispatch
Edits(c) ==
    /\ c \in DOMAIN callArgs
    /\ callArgs[c].pc = "edits"
    /\ \E run \in applyFastRecoveryEdits(RunOf(callArgs[c]), callArgs[c].events,
                                         FastRecoveryWindow) :
          /\ pendingDown' = run.pendingDown
          /\ pendingGroup' = run.pendingGroup
          /\ nextMessageID' = run.nextMessageID
          /\ calls' = run.calls
          /\ callArgs' = [callArgs EXCEPT ![c] =
                [pc |-> IF Len(run.remaining) = 0 THEN "returned" ELSE "dispatch",
                 events |-> @.events, remaining |-> run.remaining,
                 order |-> SortKeys(FirstSeen(run.remaining, {}))]]
    /\ UNCHANGED <<prevDown, prevGroup>>
    /\ LockFrame

\* alerts.go:64-71, one turn of the loop over the keys: the group is
\* sent and recorded; after the last key SendBatch returns
SendGroup(c) ==
    /\ c \in DOMAIN callArgs
    /\ callArgs[c].pc = "dispatch"
    /\ LET key   == Head(callArgs[c].order)
           group == SortByTarget(GroupOf(callArgs[c].remaining, key.key))
       IN  \E run \in handleGroupSend(RunOf(callArgs[c]), key.kind, key.reason, group,
                                       formatAlertGroup(group)) :
              /\ pendingDown' = run.pendingDown
              /\ pendingGroup' = run.pendingGroup
              /\ nextMessageID' = run.nextMessageID
              /\ calls' = run.calls
    /\ callArgs' = [callArgs EXCEPT ![c] =
          [pc |-> IF Len(@.order) = 1 THEN "returned" ELSE "dispatch",
           events |-> @.events, remaining |-> @.remaining, order |-> Tail(@.order)]]
    /\ UNCHANGED <<prevDown, prevGroup>>
    /\ LockFrame

\* both calls have returned and the goroutines go on
CallersReturn ==
    /\ callArgs # <<>>
    /\ \A c \in DOMAIN callArgs : callArgs[c].pc = "returned"
    /\ callArgs' = <<>>
    /\ calls' = <<>>
    /\ prevDown' = <<>>
    /\ prevGroup' = [reason \in Reasons |-> <<>>]
    /\ UNCHANGED <<pendingDown, pendingGroup, nextMessageID>>
    /\ LockFrame

\* time passes between the calls: a record is fresh at the second it was
\* made and stale one second after the window
LockTick ==
    /\ callArgs = <<>>
    /\ Tick
    /\ now' = now + FastRecoveryWindow + 1

LockInit == AlertInit /\ notifier

LockNext ==
    \/ CallersEnter
    \/ \E c \in Callers : Lock(c)
    \/ \E c \in Callers : Edits(c)
    \/ \E c \in Callers : SendGroup(c)
    \/ CallersReturn
    \/ LockTick

SpecLock == LockInit /\ [][LockNext]_vars

----------------------------------------------------------------------------
(* What a returned SendBatch did, read off its record *)

\* a SendBatch with a transport configured has just returned
Sent == phase = "sent" /\ notifier

StateChange == "state-change"

\* the events of the last batch of one kind and reason
BatchEvents(kind, reason) ==
    {ev \in Range(lastBatch) : ev.Kind = kind /\ ev.Reason = reason}

NamesOf(events) == {ev.Target : ev \in events}

\* the edit calls made on one message
EditsOf(messageID) ==
    {i \in DOMAIN calls : calls[i].op = "EditDefaultHTML" /\ calls[i].messageID = messageID}

\* the calls that sent a new message listing one of the names
SendsListing(names) ==
    {i \in DOMAIN calls : /\ calls[i].op # "EditDefaultHTML"
                          /\ NamesIn(calls[i].text) \cap names # {}}

\* the recovery arrives within the window of the pending record of its target
InWindowOfRecord(ev) ==
    /\ ev.Target \in DOMAIN prevDown
    /\ ev.Occurred - prevDown[ev.Target].DownAt <= FastRecoveryWindow

\* the recoveries of the last batch that a successful single-target edit took
TakenBySingleEdit ==
    {ev \in BatchEvents("RECOVERED", StateChange) :
        /\ InWindowOfRecord(ev)
        /\ \E i \in EditsOf(prevDown[ev.Target].MessageID) : calls[i].ok}

\* the recoveries of the last batch that fell through the single-target step
FellThrough == BatchEvents("RECOVERED", StateChange) \ TakenBySingleEdit

\* the pending groups, as they were, that a set of recoveries matches: the
\* same names, and every recovery within the window of the group's down time
MatchingGroups(events) ==
    {idx \in DOMAIN prevGroup[StateChange] :
        LET g == prevGroup[StateChange][idx]
        IN  /\ NamesOf(events) = DOMAIN g.Targets
            /\ \A ev \in events : ev.Occurred - g.DownAt <= FastRecoveryWindow}

StillPending(messageID) ==
    \E i \in DOMAIN pendingGroup[StateChange] :
        pendingGroup[StateChange][i].MessageID = messageID

----------------------------------------------------------------------------
(* C1 *)

\* C1 as stated: a RECOVERED/state-change event within 30s (inclusive) of
\* the stored single-target DOWN of its target makes SendBatch call edit
\* exactly once on the stored message and send no new message for the event.
C1_AsStated ==
    Sent => \A ev \in BatchEvents("RECOVERED", StateChange) :
                InWindowOfRecord(ev) =>
                    /\ Cardinality(EditsOf(prevDown[ev.Target].MessageID)) = 1
                    /\ SendsListing({ev.Target}) = {}

\* C1, amended: such an event makes SendBatch call edit exactly once on the
\* stored message; when that edit succeeds no new message is sent for the
\* event and the record is gone.
C1_FastRecoveryEditsOnce ==
    Sent => \A ev \in BatchEvents("RECOVERED", StateChange) :
                InWindowOfRecord(ev) =>
                    /\ Cardinality(EditsOf(prevDown[ev.Target].MessageID)) = 1
                    /\ \A i \in EditsOf(prevDown[ev.Target].MessageID) :
                          /\ NamesIn(calls[i].text) = {ev.Target}
                          /\ calls[i].text.header = "<b>DOWN -> RECOVERED</b>"
                          /\ calls[i].ok => SendsListing({ev.Target}) = {}

\* a recovery exactly 30s after the DOWN was taken by an edit, nothing sent
C1_Witness ==
    /\ Sent
    /\ \E ev \in BatchEvents("RECOVERED", StateChange) :
          /\ ev.Target \in DOMAIN prevDown
          /\ ev.Occurred - prevDown[ev.Target].DownAt = FastRecoveryWindow
          /\ \E i \in EditsOf(prevDown[ev.Target].MessageID) : calls[i].ok
          /\ SendsListing({ev.Target}) = {}

----------------------------------------------------------------------------
(* C2 *)

\* the events of the last batch that the batch before it had already
\* turned into a single-target edit: the identical event, replayed
Replayed == {c \in editedBefore : c.event \in Range(lastBatch)}

\* the edit calls of the last SendBatch that cover a target
EditsListing(names) ==
    {i \in DOMAIN calls : /\ calls[i].op = "EditDefaultHTML"
                          /\ NamesIn(calls[i].text) \cap names # {}}

\* C2 as stated: replaying the identical RECOVERED/state-change event in a
\* second SendBatch, after the first was consumed by an edit, performs no
\* further edit call.
C2_AsStated ==
    Sent => \A c \in Replayed : EditsListing({c.event.Target}) = {}

----------------------------------------------------------------------------
(* C3 *)

\* C3: a batch with N >= 2 DOWN/state-change events (distinct targets)
\* makes SendBatch send exactly one message for them, with the header
\* "DOWN xN" and one line for each of the N targets.
C3_GroupedDownOneMessage ==
    Sent => LET downs == BatchEvents("DOWN", StateChange)
                n     == Cardinality(downs)
            IN  n >= 2 =>
                    /\ Cardinality(SendsListing(NamesOf(downs))) = 1
                    /\ EditsListing(NamesOf(downs)) = {}
                    /\ \A i \in SendsListing(NamesOf(downs)) :
                          /\ calls[i].text.header = "<b>DOWN x" \o ToString(n) \o "</b>"
                          /\ Len(calls[i].text.targets) = n
                          /\ NamesIn(calls[i].text) = NamesOf(downs)

\* three targets went DOWN in one batch next to a recovery
C3_Witness ==
    /\ Sent
    /\ Cardinality(BatchEvents("DOWN", StateChange)) = 3
    /\ \E i \in DOMAIN calls :
          /\ calls[i].text.header = "<b>DOWN x3</b>"
          /\ calls[i].ok

----------------------------------------------------------------------------
(* C4 *)

\* the recoveries of the last batch whose target had no single-target record
WithoutRecord ==
    {ev \in BatchEvents("RECOVERED", StateChange) : ev.Target \notin DOMAIN prevDown}

GroupedEditHeader(n) == "<b>DOWN -> RECOVERED x" \o ToString(n) \o "</b>"

\* C4 as stated: when the RECOVERED/state-change events without a
\* single-target record have exactly the names of a pending group and each
\* is within 30s of its down time, SendBatch edits such a group's message
\* exactly once into "DOWN -> RECOVERED xN", sends no new message for those
\* events and removes the group entry.
C4_AsStated ==
    Sent => (MatchingGroups(WithoutRecord) # {} =>
                \E idx \in MatchingGroups(WithoutRecord) :
                    LET g == prevGroup[StateChange][idx]
                    IN  /\ Cardinality(EditsOf(g.MessageID)) = 1
                        /\ \A i \in EditsOf(g.MessageID) :
                              calls[i].text.header =
                                  GroupedEditHeader(Cardinality(WithoutRecord))
                        /\ SendsListing(NamesOf(WithoutRecord)) = {}
                        /\ ~StillPending(g.MessageID))

\* C4, amended: the recoveries that count are those the single-target step
\* did not take (no record, a stale record, or a failed edit).  When they
\* have exactly the names of a pending group and each is within 30s of its
\* down time, SendBatch calls edit exactly once, on the message of the
\* first such group in list order, with the text "DOWN -> RECOVERED xN"
\* listing them, and removes that entry; when the edit succeeds no new
\* message is sent for those events.
C4_GroupedRecoveryEdit ==
    Sent => (MatchingGroups(FellThrough) # {} =>
                LET first == CHOOSE idx \in MatchingGroups(FellThrough) :
                                 \A other \in MatchingGroups(FellThrough) : idx <= other
                    g     == prevGroup[StateChange][first]
                IN  /\ Cardinality(EditsOf(g.MessageID)) = 1
                    /\ \A i \in EditsOf(g.MessageID) :
                          /\ calls[i].text.header =
                                 GroupedEditHeader(Cardinality(FellThrough))
                          /\ NamesIn(calls[i].text) = NamesOf(FellThrough)
                          /\ calls[i].ok => SendsListing(NamesOf(FellThrough)) = {}
                    /\ EditsListing(NamesOf(FellThrough)) = EditsOf(g.MessageID)
                           \cup {i \in DOMAIN calls :
                                    /\ calls[i].op = "EditDefaultHTML"
                                    /\ ~calls[i].ok
                                    /\ calls[i].text.header = "<b>DOWN -> RECOVERED</b>"}
                    /\ ~StillPending(g.MessageID))

\* three targets recovered exactly 30s after their grouped DOWN: one edit
C4_Witness ==
    /\ Sent
    /\ Cardinality(FellThrough) = 3
    /\ \E idx \in MatchingGroups(FellThrough) :
          LET g == prevGroup[StateChange][idx]
          IN  /\ now - g.DownAt = FastRecoveryWindow
              /\ \E i \in EditsOf(g.MessageID) :
                    calls[i].ok /\ calls[i].text.header = "<b>DOWN -> RECOVERED x3</b>"
    /\ SendsListing(Targets) = {}

----------------------------------------------------------------------------
(* C5 *)

\* the names differ by strict inclusion, one way or the other
StrictlyComparable(left, right) ==
    left # right /\ (left \subseteq right \/ right \subseteq left)

\* C5 as stated: when the recovered targets of a batch are a strict subset
\* or superset of a pending group's members, or a recovered event is more
\* than 30s after the group's down time, SendBatch does not edit that
\* group, leaves its entry in place and sends the recoveries as one new
\* RECOVERED group message.
C5_AsStated ==
    Sent => LET recovs == BatchEvents("RECOVERED", StateChange)
            IN  \A g \in Range(prevGroup[StateChange]) :
                    ( /\ recovs # {}
                      /\ \/ StrictlyComparable(NamesOf(recovs), DOMAIN g.Targets)
                         \/ \E ev \in recovs :
                                ev.Occurred - g.DownAt > FastRecoveryWindow )
                    => /\ EditsOf(g.MessageID) = {}
                       /\ StillPending(g.MessageID)
                       /\ Cardinality(SendsListing(NamesOf(recovs))) = 1
                       /\ \A i \in SendsListing(NamesOf(recovs)) :
                             NamesIn(calls[i].text) = NamesOf(recovs)

\* C5, amended: the recoveries that count are those the single-target step
\* did not take.  A pending group whose members are not exactly their names,
\* or whose down time is more than 30s before one of them, is not edited
\* and its entry stays in place, in the same order; when no pending group
\* matches, the recoveries are sent as one new RECOVERED message.
C5_NoPartialMatch ==
    Sent => /\ \A idx \in DOMAIN prevGroup[StateChange] :
                  LET g == prevGroup[StateChange][idx]
                  IN  (FellThrough # {} /\ idx \notin MatchingGroups(FellThrough))
                      => /\ EditsOf(g.MessageID) = {}
                         /\ StillPending(g.MessageID)
            /\ LET kept == SelectSeq(prevGroup[StateChange],
                                     LAMBDA g : StillPending(g.MessageID))
               IN  SubSeq(pendingGroup[StateChange], 1, Len(kept)) = kept
            /\ (FellThrough # {} /\ MatchingGroups(FellThrough) = {})
                  => /\ Cardinality(SendsListing(NamesOf(FellThrough))) = 1
                     /\ \A i \in SendsListing(NamesOf(FellThrough)) :
                           /\ calls[i].op = "SendDefaultHTML"
                           /\ NamesIn(calls[i].text) = NamesOf(FellThrough)
                           /\ calls[i].text.header =
                                  GroupHeader("RECOVERED", Cardinality(FellThrough))
                     /\ EditsListing(NamesOf(FellThrough)) \subseteq
                           {i \in DOMAIN calls : ~calls[i].ok}

\* a strict subset, a strict superset and a late recovery each left a
\* pending group alone and went out as a new message
C5_WitnessSubset ==
    /\ Sent
    /\ \E g \in Range(prevGroup[StateChange]) :
          /\ NamesOf(FellThrough) # DOMAIN g.Targets
          /\ NamesOf(FellThrough) \subseteq DOMAIN g.Targets
          /\ FellThrough # {}
          /\ StillPending(g.MessageID)
          /\ \E i \in SendsListing(NamesOf(FellThrough)) : calls[i].ok

----------------------------------------------------------------------------
(* C6 *)

InitialCheck == "initial-check"

\* the recoveries of the last batch that end an outage which was reported
\* with reason initial-check
EndsInitialCheckOutage ==
    {ev \in Range(lastBatch) :
        ev.Kind = "RECOVERED" /\ reported[ev.Target] = InitialCheck}

\* C6 as stated: a DOWN/initial-check event is sent as a plain message and
\* creates neither a pendingDownAlert nor a pendingDownGroup, and the
\* RECOVERED event that ends an outage reported as initial-check is
\* delivered as a new message, never as an edit of an earlier message.
C6_AsStated ==
    Sent =>
        /\ BatchEvents("DOWN", InitialCheck) # {} =>
              /\ \E i \in DOMAIN calls :
                    /\ calls[i].op = "SendDefaultHTML"
                    /\ NamesIn(calls[i].text) = NamesOf(BatchEvents("DOWN", InitialCheck))
              /\ \A ev \in BatchEvents("DOWN", InitialCheck) :
                    /\ ev.Target \in DOMAIN pendingDown => ev.Target \in DOMAIN prevDown
                    /\ ev.Target \in DOMAIN pendingDown =>
                          pendingDown[ev.Target] = prevDown[ev.Target]
              /\ pendingGroup[InitialCheck] = <<>>
        /\ \A ev \in EndsInitialCheckOutage :
              /\ EditsListing({ev.Target}) = {}
              /\ SendsListing({ev.Target}) # {}

----------------------------------------------------------------------------
(* C7 *)

\* the status the object of task i had when applyStatus was entered
Previous(i) == snapshot[i].LastStatus

EventAbout(i, kind, reason) ==
    <<alertEvent(kind, snapshot[i].Name, snapshot[i].Address, snapshot[i].Port,
                 reason, now)>>

\* C7: applyStatus follows the transition rule for every pair of previous
\* status and probe result: Unknown->Down emits DOWN/initial-check,
\* Unknown->Up emits nothing, Up->Down emits DOWN/state-change, Down->Up
\* emits RECOVERED/state-change, an unchanged status emits nothing, and the
\* reason logged is INIT, CHANGE or POLL respectively.
C7_TransitionRule ==
    \A i \in DOMAIN probes :
        probes[i].pc = "applied" =>
            LET up == probes[i].status
            IN  /\ Previous(i) = <<>> /\ ~up =>
                      /\ probes[i].event = EventAbout(i, "DOWN", InitialCheck)
                      /\ probes[i].reason = "INIT"
                /\ Previous(i) = <<>> /\ up =>
                      probes[i].event = <<>> /\ probes[i].reason = "INIT"
                /\ Previous(i) = <<TRUE>> /\ ~up =>
                      /\ probes[i].event = EventAbout(i, "DOWN", StateChange)
                      /\ probes[i].reason = "CHANGE"
                /\ Previous(i) = <<FALSE>> /\ up =>
                      /\ probes[i].event = EventAbout(i, "RECOVERED", StateChange)
                      /\ probes[i].reason = "CHANGE"
                /\ Previous(i) = <<up>> =>
                      probes[i].event = <<>> /\ probes[i].reason = "POLL"

\* a target that was Down is found reachable while the other one, found
\* unreachable as before, is polled
C7_Witness ==
    /\ Len(probes) = 2
    /\ \E i, j \in DOMAIN probes :
          /\ probes[i].pc = "applied" /\ Previous(i) = <<FALSE>> /\ probes[i].status
          /\ probes[j].pc = "applied" /\ Previous(j) = <<FALSE>> /\ ~probes[j].status

----------------------------------------------------------------------------
(* C8 *)

LogReasons == {"INIT", "CHANGE", "POLL"}

\* the rows the history holds of a target from the cycle
RowsOf(name) == SelectSeq(appended[name], LAMBDA call : call.ok)

\* the tasks of the cycle have all finished
CycleChecked == runPC = "wait" /\ Joined(probes)

\* C8 as stated: in every cycle each target that is checked gets exactly
\* one history row, never zero and never more than one, with a reason among
\* INIT, CHANGE and POLL.
C8_AsStated ==
    CycleChecked =>
        \A i \in Launched :
            /\ Len(RowsOf(snapshot[i].Name)) = 1
            /\ RowsOf(snapshot[i].Name)[1].Reason \in LogReasons

\* C8 amended: each target of the cycle is held by one task, a task calls
\* Append exactly once, after its transition, with a reason among INIT, CHANGE
\* and POLL, and the history gets that one row when the call succeeds and no
\* row when it fails.
C8_OneAppendPerCheck ==
    /\ \A i, j \in DOMAIN snapshot : snapshot[i].Name = snapshot[j].Name => i = j
    /\ \A i \in DOMAIN probes :
          LET made == appended[snapshot[i].Name]
          IN  /\ Len(made) = IF i \in Logged THEN 1 ELSE 0
              /\ \A k \in DOMAIN made :
                    /\ made[k].Reason \in LogReasons
                    /\ made[k].Reason = probes[i].reason
                    /\ made[k].Status = probes[i].status
              /\ Len(RowsOf(snapshot[i].Name)) =
                    IF i \in Logged /\ made[1].ok THEN 1 ELSE 0
    /\ \A name \in TargetNames :
          (\A i \in DOMAIN snapshot : snapshot[i].Name # name) => appended[name] = <<>>
    /\ CycleChecked => \A i \in Launched : Len(appended[snapshot[i].Name]) = 1

\* two targets were checked, one row says POLL, and the Append of the other
\* one failed
C8_Witness ==
    /\ CycleChecked
    /\ Launched = {1, 2}
    /\ \E i, j \in Launched :
          /\ appended[snapshot[i].Name][1].Reason = "POLL"
          /\ appended[snapshot[i].Name][1].ok
          /\ ~appended[snapshot[j].Name][1].ok

----------------------------------------------------------------------------
(* C9 *)

\* the step with which runChecks returns
CycleEnds == runPC # "select" /\ runPC' = "select"

\* C9 as stated: every cycle started by Run invokes onEvents exactly once,
\* also when the batch is empty and also when the registry holds no targets.
C9_AsStated == runPC = "select" => Len(delivered) = 1

\* C9 amended: a cycle that finds at least one target in the registry goes
\* on to the probes and returns only by invoking onEvents, exactly once,
\* also when the batch is empty; a cycle that finds the registry empty
\* returns without invoking onEvents; onEvents is invoked at no other time.
C9_OncePerCheckedCycle ==
    [][/\ CycleEnds => Len(delivered') = IF runPC = "snapshot" THEN 0 ELSE 1
       /\ CycleEnds /\ runPC = "snapshot" => Len(targets) = 0
       /\ runPC = "snapshot" /\ runPC' # runPC /\ Len(targets) > 0 => runPC' = "loop"
       /\ runPC = "snapshot" /\ runPC' # runPC /\ Len(targets) = 0 => CycleEnds
       /\ CycleEnds /\ runPC # "snapshot" => runPC = "wait" /\ delivered = <<>>
       /\ ~CycleEnds /\ runPC' # "sync" => delivered' = delivered]_vars

\* a cycle with targets has ended, and onEvents got its empty batch
C9_Witness ==
    /\ runPC = "select"
    /\ delivered = << <<>> >>
    /\ Len(targets) > 0

----------------------------------------------------------------------------
(* C10 *)

\* the events the transitions of the cycle produced
Produced == UNION {Range(probes[i].event) : i \in Launched}

\* C10: onEvents is invoked only after every probe launched in the cycle
\* has completed and applied its transition, and its batch holds exactly
\* the events of that cycle's transitions: none missing, none of another
\* cycle, and at most one for a target name.
C10_BatchOfTheCycle ==
    [][runPC = "wait" /\ runPC' = "select" =>
          /\ \A i \in Launched : probes[i].pc = "done"
          /\ Len(delivered') = 1
          /\ Range(delivered'[1]) = Produced
          /\ \A k, m \in DOMAIN delivered'[1] :
                delivered'[1][k].Target = delivered'[1][m].Target => k = m
          /\ \A k \in DOMAIN delivered'[1] : delivered'[1][k].Occurred = now]_vars

\* the batch of a second cycle holds the two events of that cycle
C10_Witness ==
    /\ runPC = "select"
    /\ now > 0
    /\ Len(delivered) = 1
    /\ Len(delivered[1]) = 2

----------------------------------------------------------------------------
(* C11 *)

Min(left, right) == IF left <= right THEN left ELSE right

\* C11 as stated: the worker count is clamp(max-parallel, 1, min(target
\* count, 256)): with max-parallel <= 0 and N targets it is N capped at 256,
\* with N = 0 it is 1, and a configured value larger than the target count
\* is reduced to the target count.
C11_AsStated ==
    callResult # <<>> =>
        LET value == callArgs[1].value
            targetCount == callArgs[1].targetCount
            workers == callResult[1]
        IN  /\ value <= 0 /\ targetCount > 0 =>
                  workers = Min(targetCount, maxParallelChecksHardLimit)
            /\ targetCount = 0 => workers = 1
            /\ value > targetCount /\ targetCount > 0 =>
                  workers = Min(targetCount, maxParallelChecksHardLimit)

----------------------------------------------------------------------------
(* C12 *)

InFlightStates == {"probing", "applied", "logged", "sent"}

\* the probes that have been started and have not yet given their token back
InFlight == {i \in DOMAIN probes : probes[i].pc \in InFlightStates}

\* the worker count of the cycle
Workers == defaultWorkers(maxParallel, Len(snapshot))

\* C12: at every moment of a cycle the number of probes started and not yet
\* finished is at most the worker count of the cycle, hence at most the
\* configured max-parallel when that is positive and at most 256 in every
\* case; a probe starts only in a step that takes a token that was free,
\* and the token goes back in one step of its own when the task is through,
\* before the task is counted as done.
C12_BoundedProbes ==
    [][/\ Cardinality(InFlight) <= Workers
       /\ maxParallel > 0 => Cardinality(InFlight) <= maxParallel
       /\ Cardinality(InFlight) <= maxParallelChecksHardLimit
       /\ \A i \in DOMAIN probes :
             /\ i \in DOMAIN probes' /\ probes[i].pc = "queued" /\ probes'[i].pc # "queued" =>
                   /\ Tokens < Workers
                   /\ Tokens' = Tokens + 1
                   /\ probes'[i].pc = "probing"
             /\ i \in InFlight /\ i \in DOMAIN probes' /\ probes'[i].pc \notin InFlightStates =>
                   /\ probes'[i].pc = "released"
                   /\ Tokens' = Tokens - 1
             /\ i \in InFlight => i \in DOMAIN probes' /\ probes'[i].pc # "queued"]_vars

\* one worker for two targets: the second task waits for the token that
\* the first one holds
C12_Witness ==
    /\ maxParallel = 1
    /\ Len(snapshot) = 2
    /\ runPC = "acquire"
    /\ InFlight = {1}

----------------------------------------------------------------------------
(* C13 *)

\* the step with which Run enters runChecks
CycleStarts == runPC # "sync" /\ runPC' = "sync"

\* C13: cycles driven by Run never overlap: Run enters a cycle only from
\* its start or from its select, when no probe of an earlier cycle is
\* running and no onEvents callback is executing; the callback is invoked
\* only when every probe started in the cycle has completed, and Run stays
\* where it is until the callback has returned.
C13_NoOverlap ==
    [][/\ CycleStarts =>
             /\ runPC \in {"start", "select"}
             /\ InFlight = {}
             /\ \A i \in DOMAIN probes : probes[i].pc = "done"
             /\ phase = "idle"
       /\ runPC = "wait" /\ runPC' # runPC =>
             /\ runPC' = "select"
             /\ InFlight = {}
             /\ phase = "idle" /\ phase' = "sent"
       /\ phase = "sent" => runPC' = runPC]_vars

\* a second cycle has started after the callback of the first one, which
\* was given an event, returned
C13_Witness ==
    /\ runPC = "sync"
    /\ now > 0
    /\ phase = "idle"
    /\ pendingDown # <<>>

----------------------------------------------------------------------------
(* C14 *)

\* the arguments of a call that the validation is to reject
Malformed(call) ==
    \/ TrimSpace(call.name) = ""
    \/ call.op = "UpsertTarget" /\ TrimSpace(call.address) = ""
    \/ call.op = "UpsertTarget" /\ (call.port < 1 \/ call.port > 65535)

ValidationErrors(call) ==
    {"target name is required", "target address is required", PortError(call.port)}

\* a handler is called and returns an error
HandlerCalled == callArgs = <<>> /\ callResult' # <<>>

\* C14: UpsertTarget with an empty trimmed name, an empty trimmed address
\* or a port outside [1,65535], and DeleteTarget with an empty trimmed name,
\* return an error at once and change neither the store of target
\* definitions nor the registry; no other call gets a validation error.
C14_ValidationMutatesNothing ==
    [][HandlerCalled =>
          /\ Malformed(callArgs'[1]) =>
                /\ callResult'[1] \in ValidationErrors(callArgs'[1])
                /\ store' = store
                /\ targets' = targets
                /\ admin' = admin
                /\ handled' = handled
          /\ callResult'[1] \in ValidationErrors(callArgs'[1]) => Malformed(callArgs'[1])]_vars

\* a name of white space only was rejected while the registry holds a
\* target that is known to be down
C14_Witness ==
    /\ callResult = <<"target name is required">>
    /\ callArgs[1].name = Blank
    /\ callArgs[1].op = "UpsertTarget"
    /\ \E i \in DOMAIN targets : targets[i].LastStatus = <<FALSE>>

----------------------------------------------------------------------------
(* C15 *)

\* the target the call looked at is about
Subject(call) == TrimSpace(call.name)

InRegistry(registry, name) == targetByName(registry, name) # <<>>

\* the registry holds the target with the endpoint the call gave
HoldsAsGiven(registry, call) ==
    /\ InRegistry(registry, Subject(call))
    /\ targetByName(registry, Subject(call))[1].Address = TrimSpace(call.address)
    /\ targetByName(registry, Subject(call))[1].Port = call.port

\* the target is new to the registry, or its endpoint is not the one given
NewOrChanged(registry, call) == ~HoldsAsGiven(registry, call)

IsUnknown(registry, name) == targetByName(registry, name)[1].LastStatus = <<>>

\* the step with which the handler looked at returns without error
ReturnsNil == callResult = <<>> /\ callResult' = <<NoError>>

\* the handler looked at has returned without error, its caller has done
\* nothing since, no handler has written to the store after it and no other
\* handler is at work
Succeeded ==
    /\ callResult = <<NoError>>
    /\ handled = callArgs[1].call
    /\ admin = {}

\* Run starts a cycle
CycleListing == runPC # "sync" /\ runPC' = "sync"

\* the target as the rows that the starting cycle listed have it
ListedAsGiven(rows, call) ==
    \E i \in DOMAIN rows :
        /\ rows[i].Name = Subject(call)
        /\ rows[i].Address = TrimSpace(call.address)
        /\ rows[i].Port = call.port
        /\ rows[i].Enabled

\* the handler looked at returns without error from a syncTargets that
\* listed the store and rebuilt the registry
ReturnsSynced ==
    /\ ReturnsNil
    /\ \E frame \in admin : frame.pc = "listed" /\ frame \notin admin'

\* at its return the registry is as the handler's rebuild made it
RegistryAtReturn ==
    /\ ReturnsSynced /\ callArgs[1].op = "UpsertTarget" =>
          /\ HoldsAsGiven(targets', callArgs[1])
          /\ NewOrChanged(targets, callArgs[1]) => IsUnknown(targets', Subject(callArgs[1]))
    /\ ReturnsSynced /\ callArgs[1].op = "DeleteTarget" =>
          ~InRegistry(targets', Subject(callArgs[1]))

\* what the registry has of the call after the return it keeps
RegistryAfterReturn ==
    Succeeded /\ Succeeded' =>
        IF callArgs[1].op = "UpsertTarget"
        THEN HoldsAsGiven(targets, callArgs[1]) => HoldsAsGiven(targets', callArgs[1])
        ELSE ~InRegistry(targets, Subject(callArgs[1])) =>
                 ~InRegistry(targets', Subject(callArgs[1]))

\* a cycle that starts after the return lists the store as the call left it
NextCycleLists ==
    Succeeded /\ CycleListing /\ listing'.ok =>
        IF callArgs[1].op = "UpsertTarget"
        THEN ListedAsGiven(listing'.rows, callArgs[1])
        ELSE \A i \in DOMAIN listing'.rows :
                 listing'.rows[i].Name # Subject(callArgs[1])

\* C15 as stated, a sync whose ListTargets fails set aside (it keeps the
\* last-known registry): after UpsertTarget returns without error the target
\* is in the registry (status Unknown when new or when its address or port
\* changed), stays there, and the next cycle to start takes it from the
\* store; after DeleteTarget returns without error the target is no longer
\* in the registry, stays out of it, and the next cycle to start does not
\* find it in the store.
C15_AsStated ==
    [][RegistryAtReturn /\ RegistryAfterReturn /\ NextCycleLists]_vars

----------------------------------------------------------------------------
(* C16 *)

\* the step in which a syncTargets that listed the store rebuilds the
\* registry: the one of a cycle, or the one of a handler
CycleRebuilds == runPC = "sync" /\ runPC' # runPC /\ listing.ok

HandlerRebuilds == \E frame \in admin : frame.pc = "listed" /\ frame \notin admin'

\* the enabled definitions the rebuild was given
RowsGiven ==
    IF HandlerRebuilds
    THEN (CHOOSE frame \in admin : frame.pc = "listed" /\ frame \notin admin').rows
    ELSE listing.rows

RowOf(rows, name) == SelectSeq(rows, LAMBDA row : row.Name = name)

\* C16: a registry sync carries Status, LastChanged and LastChecked forward
\* unchanged for every target whose name, address and port are unchanged; a
\* target whose address or port changed, or that is new, starts with Status
\* Unknown; a target that is absent from the store or disabled there, and
\* so is not among the rows listed, is removed.
C16_SyncCarriesState ==
    [][CycleRebuilds \/ HandlerRebuilds =>
          /\ \A name \in TargetNames :
                LET row == RowOf(RowsGiven, name)
                    before == targetByName(targets, name)
                    after == targetByName(targets', name)
                IN  /\ row = <<>> => after = <<>>
                    /\ row # <<>> =>
                          /\ Len(after) = 1
                          /\ after[1].Address = row[1].Address
                          /\ after[1].Port = row[1].Port
                    /\ row # <<>> /\ before # <<>> =>
                          IF before[1].Address = row[1].Address /\ before[1].Port = row[1].Port
                          THEN /\ after[1].LastStatus = before[1].LastStatus
                               /\ after[1].LastChanged = before[1].LastChanged
                               /\ after[1].LastChecked = before[1].LastChecked
                          ELSE after[1].LastStatus = <<>>
                    /\ row # <<>> /\ before = <<>> => after[1].LastStatus = <<>>
          /\ \A i \in DOMAIN targets' : targets'[i].Name \in TargetNames
          /\ \A i, j \in DOMAIN targets' :
                i < j => NameRank(targets'[i].Name) < NameRank(targets'[j].Name)]_vars

\* the sync of the second cycle has kept what the first cycle found out
\* about a and has made b, whose port was changed, Unknown
C16_Witness ==
    /\ runPC = "snapshot"
    /\ now = 1
    /\ \E i, j \in DOMAIN targets :
          /\ targets[i].Name = "a"
          /\ targets[i].LastStatus = <<FALSE>>
          /\ targets[i].LastChecked = 0
          /\ targets[j].Name = "b"
          /\ targets[j].Port = DefaultPort + 1
          /\ targets[j].LastStatus = <<>>

----------------------------------------------------------------------------
(* C17 *)

Kinds == {"DOWN", "RECOVERED", OtherKind}

\* the group messages of the SendBatch that returned: its calls that are
\* not edits, in the order in which they were made
GroupMessages == SelectSeq(calls, LAMBDA call : call.op # "EditDefaultHTML")

\* the kind a group message is headed with
KindOf(text) ==
    CHOOSE kind \in Kinds :
        \E count \in 1..Len(TargetOrder) : GroupHeader(kind, count) = text.header

KeyOf(text) == KindOf(text) \o "|" \o text.reason

\* the event is listed by the group message
Lists(call, ev) ==
    /\ ev.Target \in NamesIn(call.text)
    /\ KeyOf(call.text) = GroupKey(ev)

\* C17: within one SendBatch all DOWN group messages are dispatched before
\* any RECOVERED group message, the DOWN groups among themselves in the
\* order of their key strings, and groups of other kinds last; the groups
\* are dispatched one after another, one message for a group, and the
\* target lines inside each message are sorted by target name.
C17_DispatchOrder ==
    Sent =>
        /\ \A i, j \in DOMAIN GroupMessages :
              i < j =>
                LET left == GroupMessages[i].text
                    right == GroupMessages[j].text
                IN  /\ alertOrder(KindOf(left)) <= alertOrder(KindOf(right))
                    /\ KindOf(left) = KindOf(right) =>
                          StringRank(KeyOf(left)) < StringRank(KeyOf(right))
        /\ \A i, j \in DOMAIN GroupMessages :
              /\ KindOf(GroupMessages[i].text) = "RECOVERED"
              /\ KindOf(GroupMessages[j].text) = "DOWN"
              => j < i
        /\ \A i, j \in DOMAIN GroupMessages :
              /\ KindOf(GroupMessages[i].text) = OtherKind
              /\ KindOf(GroupMessages[j].text) # OtherKind
              => j < i
        /\ \A ev \in Range(lastBatch) :
              LET holders == {i \in DOMAIN GroupMessages : Lists(GroupMessages[i], ev)}
              IN  /\ Cardinality(holders) <= 1
                  /\ holders = {} =>
                        \E k \in DOMAIN calls :
                            /\ calls[k].op = "EditDefaultHTML"
                            /\ calls[k].ok
                            /\ ev.Target \in NamesIn(calls[k].text)
        /\ \A i \in DOMAIN GroupMessages :
              LET lines == GroupMessages[i].text.targets
              IN  \A k, m \in DOMAIN lines :
                      k < m => NameRank(lines[k].name) < NameRank(lines[m].name)

\* a batch that came as c, b, a: the recovery of c, the other kind for b and
\* a DOWN for a; the messages went out as DOWN, RECOVERED, then the other
C17_Witness ==
    /\ Sent
    /\ Len(lastBatch) = 3
    /\ lastBatch[1].Target = "c" /\ lastBatch[1].Kind = "RECOVERED"
    /\ lastBatch[2].Target = "b" /\ lastBatch[2].Kind = OtherKind
    /\ lastBatch[3].Target = "a" /\ lastBatch[3].Kind = "DOWN"
    /\ Len(GroupMessages) = 3
    /\ KindOf(GroupMessages[1].text) = "DOWN"
    /\ KindOf(GroupMessages[2].text) = "RECOVERED"
    /\ KindOf(GroupMessages[3].text) = OtherKind

\* two DOWN groups and lines out of order: the batch came as c, b, a with
\* c and a down by state-change and b down at its first check
C17_WitnessLines ==
    /\ Sent
    /\ Len(lastBatch) = 3
    /\ lastBatch[1].Target = "c" /\ lastBatch[3].Target = "a"
    /\ Len(GroupMessages) = 2
    /\ KeyOf(GroupMessages[1].text) = "DOWN|initial-check"
    /\ KeyOf(GroupMessages[2].text) = "DOWN|state-change"
    /\ NamesIn(GroupMessages[2].text) = {"a", "c"}

----------------------------------------------------------------------------
(* C18 *)

\* the Append calls made for the object of task i
Attempts(i) == appended[snapshot[i].Name]

\* C18: neither a transport whose sends and edits fail nor a failing
\* history Append stops the probing: a task that has attempted its Append
\* goes on to its return, whether the row was stored or not; when the tasks of a
\* cycle are through, every target of the registry has been probed, its
\* status and check time are those of this cycle, and one Append with a
\* reason among INIT, CHANGE and POLL was attempted for it; and whatever
\* the transport calls of the callback returned, Run is back at its select,
\* with nothing for it to handle.
C18_ProbingGoesOn ==
    /\ \A i \in DOMAIN probes : Attempts(i) # <<>> => i \in Logged
    /\ CycleChecked =>
          /\ Len(snapshot) = Len(targets)
          /\ \A i \in DOMAIN targets :
                /\ snapshot[i].Name = targets[i].Name
                /\ probes[i].pc = "done"
                /\ targets[i].LastChecked = now
                /\ targets[i].LastStatus = <<probes[i].status>>
                /\ Len(Attempts(i)) = 1
                /\ Attempts(i)[1].Reason \in LogReasons
    /\ phase = "sent" => runPC = "select"

\* the third cycle has probed both targets although a went down in the
\* second cycle without any message getting an identifier, and although
\* the Append fails for both
C18_Witness ==
    /\ CycleChecked
    /\ now = FastRecoveryWindow
    /\ Len(targets) = 2
    /\ \A i \in DOMAIN targets : ~Attempts(i)[1].ok
    /\ reported["a"] = StateChange
    /\ nextMessageID = 1
    /\ pendingDown = <<>>

----------------------------------------------------------------------------
(* C19 *)

\* the step in which main calls seedTargets
Seeds == runPC = "stopped" /\ callResult' # <<>>

\* C19 as stated: configured targets are written to the store of target
\* definitions only when that store holds no definitions, so the seeding
\* happens once, and seedTargets never overwrites or re-enables a
\* definition that already exists in the store, one removed earlier
\* through DeleteTarget included.
C19_AsStated ==
    [][Seeds =>
          /\ store' # store => DOMAIN store = {}
          /\ \A name \in DOMAIN store :
                name \in DOMAIN store' /\ store'[name] = store[name]]_vars

----------------------------------------------------------------------------
(* C20 *)

\* the step of a cycle's syncTargets whose ListTargets failed
SyncFails == runPC = "sync" /\ runPC' # runPC /\ ~listing.ok

\* the step in which runChecks copies the slice of the registry
CopiesSlice == runPC = "snapshot" /\ runPC' # runPC

\* C20: when listing the targets from the store fails during a registry
\* sync, the registry (target list, name index and the Status, LastChanged
\* and LastChecked of every target) is left exactly as it was, and the
\* cycle goes on to probe the targets of that registry: it copies them all
\* and, when there is one at least, enters the loop that starts the probes.
C20_FailedListingKeepsRegistry ==
    [][/\ SyncFails => targets' = targets /\ runPC' = "snapshot"
       /\ CopiesSlice =>
             /\ Len(snapshot') = Len(targets)
             /\ \A i \in DOMAIN targets : Object(snapshot'[i]) = targets[i]
             /\ Len(probes') = Len(targets)
             /\ runPC' = IF Len(targets) > 0 THEN "loop" ELSE "select"
       /\ runPC = "acquire" /\ runPC' # runPC =>
             \E i \in DOMAIN probes : probes[i].pc = "queued" /\ probes'[i].pc = "probing"]_vars

\* the ListTargets of the second cycle has failed; the registry holds what
\* the first cycle found out, and b with the port it had before the store
\* was given another one
C20_Witness ==
    /\ runPC = "sync"
    /\ ~listing.ok
    /\ now = 1
    /\ "b" \in DOMAIN store
    /\ store["b"].Port = DefaultPort + 1
    /\ \E i, j \in DOMAIN targets :
          /\ targets[i].Name = "a" /\ targets[i].LastStatus = <<TRUE>>
          /\ targets[j].Name = "b" /\ targets[j].LastStatus = <<FALSE>>
          /\ targets[j].Port = DefaultPort

----------------------------------------------------------------------------
(* C21 *)

\* runChecks has seen ctx.Err() at the head of its loop and has left the
\* loop before every target of the slice had its task; the slice and the
\* tasks of the cycle stay as they are until the next cycle is entered
LoopLeftEarly ==
    /\ cancelled
    /\ Cardinality(Launched) < Len(snapshot)
    /\ runPC \notin {"loop", "acquire"}

\* C21, as stated: once the cancellation of the run context has been
\* observed, here by the loop of runChecks, the next tick is suppressed:
\* when that cycle returns to the select of Run, the select cannot take a
\* tick and start a further cycle.
C21_AsStated ==
    [][LoopLeftEarly /\ runPC' = "select" => ~(ENABLED NextTick)']_vars

----------------------------------------------------------------------------
(* C22 *)

\* the task of object i gets the result of its probe and applies it
Applies(i) ==
    /\ i \in DOMAIN probes /\ i \in DOMAIN probes'
    /\ probes[i].pc = "probing" /\ probes'[i].pc = "applied"

\* C22, as stated: the probe of a target whose endpoint is reachable,
\* also one in flight when the run context is cancelled, finds the target
\* up: the target does not become Down, no CHANGE row is written for it and
\* no DOWN event is produced for it.
C22_AsStated ==
    [][\A i \in DOMAIN probes :
          Applies(i) /\ snapshot[i].Address \in ReachableHosts =>
              /\ probes'[i].status
              /\ probes'[i].reason # "CHANGE"
              /\ \A ev \in Range(probes'[i].event) : ev.Kind # "DOWN"
              /\ \A t \in Range(targets') :
                    t.Name = snapshot[i].Name => t.LastStatus # <<FALSE>>]_vars

----------------------------------------------------------------------------
(* C23 *)

\* C23: Logs returns found = false and reads no history when the name is
\* not in the registry; otherwise it returns found = true and reads the
\* history of the target once, with the days asked for when they are in
\* 1..365, 7 when they are 0 or less and 365 when they are more, and with
\* the limit asked for when it is in 1..50000, 200 when it is 0 or less and
\* 50000 when it is more.
C23_LogsClamps ==
    callResult # <<>> =>
        LET call == callArgs[1]
            result == callResult[1]
            known == \E t \in Range(targets) : t.Name = call.trackName
        IN  /\ ~known => ~result.found /\ result.reads = <<>>
            /\ known =>
                  /\ result.found
                  /\ Len(result.reads) = 1
                  /\ result.reads[1].Target = call.trackName
                  /\ result.reads[1].Days \in 1..365
                  /\ call.days \in 1..365 => result.reads[1].Days = call.days
                  /\ call.days <= 0 => result.reads[1].Days = 7
                  /\ call.days > 365 => result.reads[1].Days = 365
                  /\ result.reads[1].Limit \in 1..50000
                  /\ call.limit \in 1..50000 => result.reads[1].Limit = call.limit
                  /\ call.limit <= 0 => result.reads[1].Limit = 200
                  /\ call.limit > 50000 => result.reads[1].Limit = 50000

\* a known target was asked for with more days and a higher limit than
\* Logs reads with
C23_Witness ==
    /\ callResult # <<>>
    /\ callArgs[1].trackName = "a"
    /\ callArgs[1].days = 366
    /\ callArgs[1].limit = 50001
    /\ callResult[1].found
    /\ callResult[1].reads = <<[Target |-> "a", Days |-> 365, Limit |-> 50000]>>

----------------------------------------------------------------------------
(* C24 *)

EntriesWith(snap, state) ==
    Cardinality({i \in DOMAIN snap.Targets : snap.Targets[i].Status = state})

\* C24: every snapshot, also one taken while the tasks of a cycle apply
\* their results or while a sync is under way, has Total = Up + Down +
\* Unknown = the number of its entries, and as many entries with the status
\* UP, DOWN and UNKNOWN as the counters Up, Down and Unknown say.
C24_SnapshotConsistent ==
    callResult # <<>> =>
        LET snap == callResult[1]
        IN  /\ snap.Total = snap.Up + snap.Down + snap.Unknown
            /\ snap.Total = Len(snap.Targets)
            /\ EntriesWith(snap, "UP") = snap.Up
            /\ EntriesWith(snap, "DOWN") = snap.Down
            /\ EntriesWith(snap, "UNKNOWN") = snap.Unknown
            /\ \A i \in DOMAIN snap.Targets :
                  snap.Targets[i].Status \in {"UP", "DOWN", "UNKNOWN"}

\* a snapshot taken in the middle of the first cycle: one task has applied
\* its result and the other has not, and a handler is between its listing
\* and its rebuild
C24_Witness ==
    /\ callResult # <<>>
    /\ callResult[1].Total = 2
    /\ callResult[1].Down = 1
    /\ callResult[1].Unknown = 1
    /\ \E i, j \in DOMAIN probes : probes[i].pc = "applied" /\ probes[j].pc = "probing"
    /\ admin # {}

----------------------------------------------------------------------------
(* C25 *)

\* C25: formatDurationShort renders n whole seconds as "<n>s" when n < 60,
\* as "<m>m<s>s" with m*60 + s = n and s < 60 when n < 3600, and as
\* "<h>h<m>m<s>s" with h*3600 + m*60 + s = n, m < 60 and s < 60 otherwise;
\* 45 gives "45s", 125 gives "2m5s" and 3725 gives "1h2m5s".
C25_DurationExact ==
    callResult # <<>> =>
        LET n == callArgs[1].seconds
            text == callResult[1]
        IN  /\ n < 60 => text = ToString(n) \o "s"
            /\ n >= 60 /\ n < 3600 =>
                  \E m \in 1..59, sec \in 0..59 :
                      /\ m * 60 + sec = n
                      /\ text = ToString(m) \o "m" \o ToString(sec) \o "s"
            /\ n >= 3600 =>
                  \E h \in 1..(n \div 3600), m \in 0..59, sec \in 0..59 :
                      /\ h * 3600 + m * 60 + sec = n
                      /\ text = ToString(h) \o "h" \o ToString(m) \o "m"
                                    \o ToString(sec) \o "s"
            /\ n = 45 => text = "45s"
            /\ n = 125 => text = "2m5s"
            /\ n = 3725 => text = "1h2m5s"

\* an hour, two minutes and five seconds were formatted
C25_Witness ==
    /\ callResult = <<"1h2m5s">>
    /\ callArgs[1].seconds = 3725

----------------------------------------------------------------------------
(* C26 *)

\* a request is answered in this step
Answered == Len(callArgs') = Len(callArgs) + 1

LastRequest == callArgs'[Len(callArgs')]

LastAnswer == callResult'[Len(callResult')]

\* the requests before this one that issued the token
IssuedBy(token) ==
    {i \in DOMAIN callArgs : callArgs[i].op = "NewAuthLink" /\ callResult[i].value = token}

\* the POST requests before this one that carried the token once it was
\* issued
PostedBefore(token) ==
    {i \in DOMAIN callArgs :
        /\ \E j \in IssuedBy(token) : j < i
        /\ callArgs[i].op = "handleAuthVerify"
        /\ callArgs[i].method = "POST"
        /\ TrimSpace(callArgs[i].token) = token}

\* C26: a GET of /auth/verify leaves the tokens and sessions as they are;
\* the first POST with an issued token, made before the token's TTL has
\* passed, is answered with a new session; every later POST with that
\* token, every POST made after the TTL and every POST with a token never
\* issued is refused and makes no session.
C26_TokenOneTime ==
    [][Answered /\ LastRequest.op = "handleAuthVerify" =>
          LET token == TrimSpace(LastRequest.token)
              made == DOMAIN auth'.sessions \ DOMAIN auth.sessions
          IN  /\ LastRequest.method = "GET" => auth' = auth
              /\ LastRequest.method = "POST" /\ token # "" =>
                    /\ \A i \in IssuedBy(token) :
                          /\ PostedBefore(token) = {}
                          /\ now < callArgs[i].at + auth.tokenTTL
                          => /\ LastAnswer.code = 302
                             /\ made = {LastAnswer.value}
                             /\ auth'.sessions[LastAnswer.value] = now
                    /\ \/ IssuedBy(token) = {}
                       \/ PostedBefore(token) # {}
                       \/ \E i \in IssuedBy(token) : now > callArgs[i].at + auth.tokenTTL
                       => /\ LastAnswer.code = 401
                          /\ made = {}
                    /\ token \notin DOMAIN auth'.tokens
              /\ LastRequest.method # "POST" \/ token = "" => made = {}]_vars

\* the token was issued, shown by a GET, accepted by the first POST and
\* refused by the second
C26_Witness ==
    /\ Len(callArgs) = 4
    /\ callArgs[1].op = "NewAuthLink"
    /\ callArgs[2].method = "GET" /\ callResult[2].code = 200
    /\ callArgs[3].method = "POST" /\ callResult[3].code = 302
    /\ callArgs[4].method = "POST" /\ callResult[4].code = 401
    /\ \A i \in 2..4 : callArgs[i].token = callResult[1].value

----------------------------------------------------------------------------
(* C27 *)

\* the calls before call i that had its key
EarlierOf(i) == {j \in 1..(i - 1) : callArgs[j].key = callArgs[i].key}

\* the call that started the window of call i: call i itself when it is the
\* first of its key or comes a window length or more after the start of
\* the window of the call before it
RECURSIVE WindowStart(_)
WindowStart(i) ==
    IF EarlierOf(i) = {} THEN i
    ELSE LET before == CHOOSE j \in EarlierOf(i) : \A k \in EarlierOf(i) : k <= j
             start == WindowStart(before)
         IN  IF callArgs[i].at - callArgs[start].at >= limiter.window THEN i ELSE start

\* the number of call i among the calls of its key in its window
PlaceInWindow(i) ==
    Cardinality({j \in 1..i : /\ callArgs[j].key = callArgs[i].key
                              /\ WindowStart(j) = WindowStart(i)})

\* C27, as stated: for every key, the empty one too, a call is allowed
\* when it is among the first `limit` calls of its key in its window and
\* refused otherwise.
C27_AsStated ==
    \A i \in DOMAIN callArgs : callResult[i] <=> PlaceInWindow(i) <= limiter.limit

\* C27: for every key but the empty one, the window of a key starts with
\* its first call or with its first call a window length or more after the
\* start of the window before; the first `limit` calls of the key in a
\* window are allowed and the others are refused.  A call with the empty
\* key is always allowed.
C27_FixedWindow ==
    \A i \in DOMAIN callArgs :
        IF callArgs[i].key = "" THEN callResult[i]
        ELSE callResult[i] <=> PlaceInWindow(i) <= limiter.limit

\* with a limit of 2 and a window of 2 seconds: two calls allowed, the
\* third refused, and the call two seconds after the first allowed again
C27_Witness ==
    /\ limiter.limit = 2
    /\ limiter.window = 2
    /\ Len(callArgs) = 4
    /\ \A i \in 1..4 : callArgs[i].key = "10.0.0.1"
    /\ callArgs[1].at = 0 /\ callArgs[3].at = 1 /\ callArgs[4].at = 2
    /\ callResult = <<TRUE, TRUE, FALSE, TRUE>>

----------------------------------------------------------------------------
(* C28 *)

\* the calls of the last SendBatch that asked for a message identifier
IDSends == {i \in DOMAIN calls : calls[i].op = "SendDefaultHTMLWithID"}

\* the record of a target is as it was before the last SendBatch
RecordAsBefore(target) ==
    IF target \in DOMAIN prevDown
    THEN target \in DOMAIN pendingDown /\ pendingDown[target] = prevDown[target]
    ELSE target \notin DOMAIN pendingDown

\* the record of the target of ev holds the identifier and the event
RecordOf(ev, messageID) ==
    /\ ev.Target \in DOMAIN pendingDown
    /\ pendingDown[ev.Target].MessageID = messageID
    /\ pendingDown[ev.Target].DownAt = ev.Occurred
    /\ pendingDown[ev.Target].Address = ev.Address
    /\ pendingDown[ev.Target].Port = ev.Port
    /\ pendingDown[ev.Target].Reason = ev.Reason

\* C28, as stated: when the one DOWN/state-change event of a batch was sent
\* without error, the record of its target holds after SendBatch the
\* identifier the send returned and the event's time, address and port.
C28_AsStated ==
    Sent => \A ev \in BatchEvents("DOWN", StateChange) :
                Cardinality(BatchEvents("DOWN", StateChange)) = 1 =>
                    \A i \in IDSends : calls[i].ok => RecordOf(ev, calls[i].messageID)

\* C28, amended: that holds when the send returned an identifier greater
\* than zero, whatever record the target had before; when the send failed
\* or returned no identifier, the record of the target is as it was.
C28_SingleDownRecorded ==
    Sent => \A ev \in BatchEvents("DOWN", StateChange) :
                Cardinality(BatchEvents("DOWN", StateChange)) = 1 =>
                    /\ Cardinality(IDSends) = 1
                    /\ \A i \in IDSends :
                          IF calls[i].ok /\ calls[i].messageID > 0
                          THEN RecordOf(ev, calls[i].messageID)
                          ELSE RecordAsBefore(ev.Target)

\* the record of an earlier DOWN of the target was replaced by the record
\* of the message just sent
C28_Witness ==
    /\ Sent
    /\ Cardinality(BatchEvents("DOWN", StateChange)) = 1
    /\ \E ev \in BatchEvents("DOWN", StateChange), i \in IDSends :
          /\ ev.Target \in DOMAIN prevDown
          /\ calls[i].ok
          /\ calls[i].messageID > prevDown[ev.Target].MessageID
          /\ prevDown[ev.Target].DownAt < ev.Occurred
          /\ RecordOf(ev, calls[i].messageID)

----------------------------------------------------------------------------
(* C29 *)

\* the DOWN/state-change events of the last batch are a group of several
GroupedDown == Cardinality(BatchEvents("DOWN", StateChange)) >= 2

\* a list as it was, or with one of its entries taken out
WithoutOne(list) == {list} \cup {RemoveAt(list, idx) : idx \in DOMAIN list}

\* the last entry of the pending groups is the group just sent under the
\* identifier, and the entries before it are the earlier ones
GroupAppended(messageID) ==
    LET list == pendingGroup[StateChange]
    IN  /\ Len(list) >= 1
        /\ list[Len(list)].MessageID = messageID
        /\ list[Len(list)].Reason = StateChange
        /\ DOMAIN list[Len(list)].Targets = NamesOf(BatchEvents("DOWN", StateChange))
        /\ \A ev \in BatchEvents("DOWN", StateChange) :
              list[Len(list)].Targets[ev.Target] = ev
        /\ SubSeq(list, 1, Len(list) - 1) \in WithoutOne(prevGroup[StateChange])

\* C29, as stated: when the DOWN/state-change group of two or more targets
\* was sent without error, exactly one pending group was appended under the
\* reason, its members are the targets of the group, and no member got a
\* single-target record.
C29_AsStated ==
    Sent /\ GroupedDown =>
        \A i \in IDSends : calls[i].ok =>
            /\ GroupAppended(calls[i].messageID)
            /\ \A ev \in BatchEvents("DOWN", StateChange) : RecordAsBefore(ev.Target)

\* C29, amended: that holds when the send returned an identifier greater
\* than zero; when the send failed or returned no identifier nothing is
\* appended. In both cases no member gets a single-target record.
C29_GroupedDownRecorded ==
    Sent /\ GroupedDown =>
        /\ Cardinality(IDSends) = 1
        /\ \A i \in IDSends :
              IF calls[i].ok /\ calls[i].messageID > 0
              THEN GroupAppended(calls[i].messageID)
              ELSE pendingGroup[StateChange] \in WithoutOne(prevGroup[StateChange])
        /\ \A ev \in BatchEvents("DOWN", StateChange) : RecordAsBefore(ev.Target)

\* a group of two was sent and appended as a pending group, while one
\* member kept the single-target record it had from an earlier DOWN
C29_Witness ==
    /\ Sent /\ GroupedDown
    /\ \E i \in IDSends : calls[i].ok /\ calls[i].messageID > 0
                           /\ GroupAppended(calls[i].messageID)
    /\ Len(pendingGroup[StateChange]) = Len(prevGroup[StateChange]) + 1
    /\ \E ev \in BatchEvents("DOWN", StateChange) :
          ev.Target \in DOMAIN prevDown /\ RecordAsBefore(ev.Target)

----------------------------------------------------------------------------
(* C30 *)

\* the last batch holds a RECOVERED/state-change event of the target
RecoveryOf(target) ==
    {ev \in BatchEvents("RECOVERED", StateChange) : ev.Target = target}

\* the record of the target was replaced by the record of a new
\* single-target DOWN message of the last batch
Superseded(target) ==
    /\ Cardinality(BatchEvents("DOWN", StateChange)) = 1
    /\ \E ev \in BatchEvents("DOWN", StateChange), i \in IDSends :
          /\ ev.Target = target
          /\ calls[i].ok /\ calls[i].messageID > 0
          /\ RecordOf(ev, calls[i].messageID)

\* C30, as stated: a record that SendBatch did not leave as it was either
\* belonged to a recovery that was applied as a successful edit or was
\* superseded by a new DOWN; so a stale recovery and one whose edit failed
\* leave the record in place.
C30_AsStated ==
    Sent => \A target \in DOMAIN prevDown :
                \/ RecordAsBefore(target)
                \/ Superseded(target)
                \/ \E ev \in TakenBySingleEdit : ev.Target = target

\* C30, amended: a record is removed exactly when the batch holds a
\* RECOVERED/state-change event of its target, be the recovery edited in,
\* stale, or refused by the transport; without one the record is as it
\* was or superseded by a new DOWN.
C30_RecordRemovedByRecovery ==
    Sent => \A target \in DOMAIN prevDown :
                IF RecoveryOf(target) # {}
                THEN target \notin DOMAIN pendingDown
                ELSE RecordAsBefore(target) \/ Superseded(target)

\* one batch held a stale recovery and a recovery whose edit failed, and
\* both records are gone
C30_Witness ==
    /\ Sent
    /\ \E stale, failed \in BatchEvents("RECOVERED", StateChange) :
          /\ stale.Target \in DOMAIN prevDown
          /\ ~InWindowOfRecord(stale)
          /\ InWindowOfRecord(failed)
          /\ \E i \in EditsOf(prevDown[failed.Target].MessageID) : ~calls[i].ok
          /\ {stale.Target, failed.Target} \cap DOMAIN pendingDown = {}

----------------------------------------------------------------------------
(* C31 *)

\* the pending groups of the state-change reason as they were, and as they are
GroupsBefore == prevGroup[StateChange]
GroupsAfter == pendingGroup[StateChange]

\* the index of the first pending group the fallen-through recoveries
\* match, 0 when none does
FirstMatching ==
    IF MatchingGroups(FellThrough) = {} THEN 0
    ELSE CHOOSE idx \in MatchingGroups(FellThrough) :
             \A other \in MatchingGroups(FellThrough) : idx <= other

\* the pending groups that the last SendBatch did not consume, in order
GroupsKept ==
    IF FirstMatching = 0 THEN GroupsBefore ELSE RemoveAt(GroupsBefore, FirstMatching)

\* C31: a pending group is consumed by at most one recovery batch.  In one
\* SendBatch at most one pending group is edited, it is the first exact
\* match in list order, it gets one edit call and is removed whether the
\* edit succeeded or not, and the other entries stay as they were, in
\* order.  An edit call is only ever made on a message that was pending
\* when the SendBatch began, the identifiers of the pending entries are
\* pairwise different and were all issued before, so a message that was
\* consumed is never pending again: over any sequence of SendBatch calls a
\* group message is the target of at most one edit call.
C31_GroupConsumedOnce ==
    /\ \A i, j \in DOMAIN GroupsAfter :
          i # j => GroupsAfter[i].MessageID # GroupsAfter[j].MessageID
    /\ \A g \in Range(GroupsAfter) :
          /\ g.MessageID < nextMessageID
          /\ \A name \in DOMAIN pendingDown : pendingDown[name].MessageID # g.MessageID
    /\ Sent =>
          /\ \A i \in DOMAIN calls :
                calls[i].op = "EditDefaultHTML" =>
                    \/ \E g \in Range(GroupsBefore) : g.MessageID = calls[i].messageID
                    \/ \E name \in DOMAIN prevDown :
                           prevDown[name].MessageID = calls[i].messageID
          /\ \A idx \in DOMAIN GroupsBefore :
                LET g == GroupsBefore[idx]
                IN  IF idx = FirstMatching
                    THEN Cardinality(EditsOf(g.MessageID)) = 1 /\ ~StillPending(g.MessageID)
                    ELSE EditsOf(g.MessageID) = {} /\ StillPending(g.MessageID)
          /\ Len(GroupsAfter) >= Len(GroupsKept)
          /\ SubSeq(GroupsAfter, 1, Len(GroupsKept)) = GroupsKept
          /\ \A idx \in DOMAIN GroupsAfter :
                idx > Len(GroupsKept) =>
                    \A g \in Range(GroupsBefore) : GroupsAfter[idx].MessageID > g.MessageID

\* two pending groups matched the recoveries of the batch: the first was
\* edited and removed, the second stayed and was not edited
C31_Witness ==
    /\ Sent
    /\ Cardinality(MatchingGroups(FellThrough)) = 2
    /\ Len(GroupsBefore) = 2 /\ Len(GroupsAfter) = 1
    /\ GroupsAfter[1] = GroupsBefore[2]
    /\ Cardinality(EditsOf(GroupsBefore[1].MessageID)) = 1
    /\ EditsOf(GroupsBefore[2].MessageID) = {}

----------------------------------------------------------------------------
(* C32 *)

\* the calls of the last SendBatch that sent a new message
Sends == {i \in DOMAIN calls : calls[i].op # "EditDefaultHTML"}

\* the grouped edit of the last SendBatch succeeded
GroupEditTook ==
    /\ FirstMatching # 0
    /\ \E i \in EditsOf(GroupsBefore[FirstMatching].MessageID) : calls[i].ok

\* the events of one kind and reason that no edit took: a group to send
LeftToSend(kind, reason) ==
    IF kind = "RECOVERED" /\ reason = StateChange
    THEN IF GroupEditTook THEN {} ELSE FellThrough
    ELSE BatchEvents(kind, reason)

\* the kinds and reasons that have a group to send
GroupsToSend == {shape \in EventShapes : LeftToSend(shape[1], shape[2]) # {}}

\* the identifiers that the successful sends of the last SendBatch returned
IDsReturned == {calls[i].messageID : i \in {j \in IDSends : calls[j].ok}}

\* C32: every group of the batch gets one send call, whether or not that
\* call or a call before it failed: a failed send is not tried again and
\* the groups after it are still sent.  A failed send creates or changes
\* no pending record: the targets it lists have their single-target record
\* as it was or none, and every pending entry that is new holds the
\* identifier of a send that succeeded.
C32_FailedSendAbsorbed ==
    Sent =>
        /\ Cardinality(Sends) = Cardinality(GroupsToSend)
        /\ \A shape \in GroupsToSend :
              LET names == NamesOf(LeftToSend(shape[1], shape[2]))
              IN  /\ Cardinality(SendsListing(names)) = 1
                  /\ \A i \in SendsListing(names) : NamesIn(calls[i].text) = names
        /\ \A i \in Sends :
              ~calls[i].ok =>
                  /\ \A name \in NamesIn(calls[i].text) :
                        name \notin DOMAIN pendingDown \/ RecordAsBefore(name)
                  /\ calls[i].op = "SendDefaultHTMLWithID" => GroupsAfter = GroupsKept
        /\ \A idx \in DOMAIN GroupsAfter :
              idx > Len(GroupsKept) => GroupsAfter[idx].MessageID \in IDsReturned
        /\ \A name \in DOMAIN pendingDown :
              RecordAsBefore(name) \/ pendingDown[name].MessageID \in IDsReturned

\* of three groups the send of the second, a DOWN/state-change of one
\* target, failed and the record that target had is as it was; the group
\* after it was still sent
C32_Witness ==
    /\ Sent
    /\ Cardinality(Sends) = 3
    /\ \E i \in IDSends :
          /\ ~calls[i].ok
          /\ \E name \in NamesIn(calls[i].text) :
                name \in DOMAIN prevDown /\ RecordAsBefore(name)
          /\ \E j \in Sends : j > i /\ calls[j].ok
          /\ \E j \in Sends : j < i

----------------------------------------------------------------------------
(* C33 *)

\* the recoveries of the last batch whose single-target edit was refused
EditFailed ==
    {ev \in BatchEvents("RECOVERED", StateChange) :
        /\ InWindowOfRecord(ev)
        /\ \E i \in EditsOf(prevDown[ev.Target].MessageID) : ~calls[i].ok}

\* the recoveries of the last batch whose record was more than 30s old
StaleRecord ==
    {ev \in BatchEvents("RECOVERED", StateChange) :
        ev.Target \in DOMAIN prevDown /\ ~InWindowOfRecord(ev)}

\* C33: a RECOVERED/state-change event whose single-target edit failed,
\* whose record is stale or that has no record falls through, and these
\* are all that fall through.  A stale record and a missing one cause no
\* edit call, a failed edit is not tried again.  Unless a pending group
\* matches the events that fell through, each of them is listed in the one
\* ordinary RECOVERED message of the same SendBatch, which lists exactly
\* those events.  SendBatch returns as it always does: it has no result.
C33_FallsThrough ==
    Sent =>
        /\ FellThrough = EditFailed \cup StaleRecord \cup WithoutRecord
        /\ \A ev \in StaleRecord : EditsOf(prevDown[ev.Target].MessageID) = {}
        /\ \A ev \in EditFailed :
              Cardinality(EditsOf(prevDown[ev.Target].MessageID)) = 1
        /\ FirstMatching = 0 =>
              \A ev \in FellThrough :
                  /\ EditsListing({ev.Target}) \subseteq
                         {i \in DOMAIN calls : ~calls[i].ok}
                  /\ Cardinality(SendsListing({ev.Target})) = 1
                  /\ \A i \in SendsListing({ev.Target}) :
                        /\ calls[i].op = "SendDefaultHTML"
                        /\ calls[i].text.header =
                               GroupHeader("RECOVERED", Cardinality(FellThrough))
                        /\ calls[i].text.reason = StateChange
                        /\ NamesIn(calls[i].text) = NamesOf(FellThrough)

\* one batch held a recovery whose edit failed, one with a stale record and
\* one without a record, and the three went out in one RECOVERED message
C33_Witness ==
    /\ Sent
    /\ EditFailed # {} /\ StaleRecord # {} /\ WithoutRecord # {}
    /\ FirstMatching = 0
    /\ \E i \in Sends :
          /\ calls[i].ok
          /\ calls[i].text.header = GroupHeader("RECOVERED", 3)
          /\ NamesIn(calls[i].text) = NamesOf(FellThrough)

----------------------------------------------------------------------------
(* C34 *)

\* the pending entries: the single-target records and the pending groups
PendingEntries == Cardinality(DOMAIN pendingDown) + Len(GroupsAfter)

\* the targets whose DOWN/state-change of the last batch was recorded, in a
\* single-target record or in a pending group
RecordedDown ==
    {ev.Target : ev \in {e \in BatchEvents("DOWN", StateChange) :
        \/ \E id \in IDsReturned : RecordOf(e, id)
        \/ \E idx \in DOMAIN GroupsAfter :
               /\ GroupsAfter[idx].MessageID \in IDsReturned
               /\ e.Target \in DOMAIN GroupsAfter[idx].Targets}}

\* the pending groups of before the last SendBatch that are still pending
\* and hold the target
OlderGroupsOf(target) ==
    {g \in Range(GroupsBefore) : StillPending(g.MessageID) /\ target \in DOMAIN g.Targets}

\* C34, as stated: when a target goes Down again and is recorded, the
\* pending entries that held it before are gone, overwritten by the new
\* one; so the pending entries are never more than the targets.
C34_AsStated ==
    /\ PendingEntries <= Cardinality(Targets)
    /\ Sent => \A target \in RecordedDown :
                  /\ OlderGroupsOf(target) = {}
                  /\ target \in DOMAIN prevDown /\ target \in DOMAIN pendingDown
                        => pendingDown[target] # prevDown[target]

----------------------------------------------------------------------------
(* C35 *)

\* both calls of the round have returned
BothReturned ==
    /\ DOMAIN callArgs = Callers
    /\ \A c \in Callers : callArgs[c].pc = "returned"

\* the AlertManager as it was when the two calls began
RoundStart ==
    [pendingDown |-> prevDown, pendingGroup |-> prevGroup,
     nextMessageID |-> nextMessageID
                          - Cardinality({i \in DOMAIN calls : calls[i].messageID > 0
                                                             /\ calls[i].op # "EditDefaultHTML"}),
     calls |-> <<>>, remaining |-> <<>>, groupedRecoveries |-> <<>>]

\* what SendBatch(first) followed by SendBatch(second) can leave
OneAfterAnother(first, second) ==
    UNION {SendBatchRuns(run, second) : run \in SendBatchRuns(RoundStart, first)}

\* the pending state and the transport calls are those that a run leaves
LeftBy(run) ==
    /\ run.pendingDown = pendingDown
    /\ run.pendingGroup = pendingGroup
    /\ run.calls = calls
    /\ run.nextMessageID = nextMessageID

\* C35: concurrent SendBatch calls are serialized end to end.  At no time
\* are two callers between Lock and Unlock, so no caller reads the pending
\* maps while another is between its decision and its bookkeeping; and
\* when both calls have returned, the pending state and the sequence of
\* transport calls are those of the two calls made one after another, in
\* one order or the other.
C35_Serialized ==
    /\ Cardinality({c \in DOMAIN callArgs : Holds(c)}) <= 1
    /\ BothReturned =>
          \/ \E run \in OneAfterAnother(callArgs[1].events, callArgs[2].events) : LeftBy(run)
          \/ \E run \in OneAfterAnother(callArgs[2].events, callArgs[1].events) : LeftBy(run)

\* one caller reported a DOWN and got a record for it while the other,
\* with the recovery of the same target, waited for the mutex and then
\* edited the message of the first
C35_Witness ==
    /\ BothReturned
    /\ Len(calls) = 2
    /\ calls[1].op = "SendDefaultHTMLWithID" /\ calls[1].ok /\ calls[1].messageID > 0
    /\ calls[2].op = "EditDefaultHTML" /\ calls[2].messageID = calls[1].messageID
    /\ \E c \in Callers :
          /\ \E ev \in Range(callArgs[c].events) : ev.Kind = "RECOVERED"
          /\ \A ev \in Range(callArgs[c].events) : ev.Kind = "RECOVERED"

----------------------------------------------------------------------------
(* C36 *)

\* the edit calls that succeeded and whose text lists the target
EditedIn(target) == {i \in EditsListing({target}) : calls[i].ok}

\* how often a text lists the target
LinesOf(text, target) ==
    Cardinality({k \in DOMAIN text.targets : text.targets[k].name = target})

\* C36: in one SendBatch with a transport every event of the batch is
\* handled exactly once: either one successful edit covers it and no new
\* message lists it, or no successful edit covers it and exactly one send
\* call, made whether or not the transport accepts it, lists it; and a
\* text lists it once.
C36_HandledExactlyOnce ==
    Sent => \A ev \in Range(lastBatch) :
                /\ Cardinality(EditedIn(ev.Target))
                       + Cardinality(SendsListing({ev.Target})) = 1
                /\ \A i \in EditedIn(ev.Target) \cup SendsListing({ev.Target}) :
                      LinesOf(calls[i].text, ev.Target) = 1

\* of a batch of three events one was edited into the message of its DOWN
\* and the two others went out in a new message each, after an edit that
\* had failed
C36_Witness ==
    /\ Sent
    /\ Len(lastBatch) = 3
    /\ Cardinality(Sends) = 2
    /\ \E ev \in Range(lastBatch) : EditedIn(ev.Target) # {}
    /\ \E ev \in Range(lastBatch) :
          /\ \E i \in EditsListing({ev.Target}) : ~calls[i].ok
          /\ SendsListing({ev.Target}) # {}

----------------------------------------------------------------------------
(* C37 *)

\* the task of object i has applied the status of its probe
HasApplied(i) == i \in DOMAIN probes /\ probes[i].pc \notin {"queued", "probing"}

\* the registry entries of the target that object i of the slice stands
\* for: the same name, address and port
RegistryEntriesOf(i) ==
    {k \in DOMAIN targets : /\ targets[k].Name = snapshot[i].Name
                            /\ targets[k].Address = snapshot[i].Address
                            /\ targets[k].Port = snapshot[i].Port}

\* C37, as stated: the status that a probe applied is never lost to a
\* re-sync of the registry: once the task of a target has applied its
\* status, the registry entry of that target, with the name, address and
\* port unchanged, is not Unknown, so that the next cycle logs no second
\* INIT and emits no second initial-check DOWN for it.
C37_AsStated ==
    \A i \in DOMAIN snapshot :
        HasApplied(i) => \A k \in RegistryEntriesOf(i) : targets[k].LastStatus # <<>>

----------------------------------------------------------------------------
(* C38 *)

\* the target was reported Down again after the message was sent: a
\* pending entry with a later message holds it, a single-target record or
\* a pending group
DownAgainSince(target, messageID) ==
    \/ target \in DOMAIN prevDown /\ prevDown[target].MessageID > messageID
    \/ \E g \in Range(GroupsBefore) :
           g.MessageID > messageID /\ target \in DOMAIN g.Targets

\* C38, as stated: the pending group whose message SendBatch edits into
\* "DOWN -> RECOVERED xN" has no member that was reported Down again after
\* that message was sent, so the downtime the edit shows for a member is
\* measured from that member's most recent DOWN.
C38_AsStated ==
    Sent /\ FirstMatching # 0 =>
        \A target \in DOMAIN GroupsBefore[FirstMatching].Targets :
            ~DownAgainSince(target, GroupsBefore[FirstMatching].MessageID)

----------------------------------------------------------------------------
(* C39 *)

\* Run is inside runChecks
InCycle == runPC \in {"sync", "snapshot", "loop", "acquire", "wait"}

\* a task that is about to publish its event finds room in the channel,
\* whose capacity is the number of targets of the slice
RoomToPublish ==
    \A i \in DOMAIN probes :
        probes[i].pc = "logged" /\ probes[i].event # <<>> =>
            Len(eventsCh) < Len(snapshot)

\* C39: every cycle terminates, for no target or several and for one
\* worker or several, every probe answering: never more tokens are held
\* than the semaphore has, a task that publishes its event finds room in
\* the channel, the loop that waits for a token gets on, every cycle
\* entered comes back to the select of Run, and the tokens taken are all
\* given back.
C39_CycleTerminates ==
    /\ [](Tokens <= Workers \/ snapshot = <<>>)
    /\ []RoomToPublish
    /\ (runPC = "acquire") ~> (runPC # "acquire")
    /\ InCycle ~> (runPC = "select")
    /\ (Tokens > 0) ~> (Tokens = 0)

\* with one worker for two targets the loop waits for the token that the
\* task of the first target holds, whose event is not yet published
C39_Witness ==
    /\ runPC = "acquire"
    /\ Len(snapshot) = 2
    /\ Workers = 1 /\ Tokens = 1
    /\ probes[1].pc = "logged" /\ probes[1].event # <<>>

-----------------------------------------------------------------------------
(* The history backends: logstore's in-memory rows and its SQLite table *)

\* Instants of this section are counted in half seconds, so that a row can be
\* appended between two whole seconds; a timestamp text is the pair of the
\* second it prints and the digit behind its decimal point (0: none printed).

\* the most Append calls made before a read-back
MaxAppends == 3

\* the last instant, in half seconds, of an Append or a cutoff
LastAppendTime == 3

\* the largest limit a read-back is asked for
MaxLimit == 3

\* time.RFC3339 prints whole seconds and drops the fraction
formatRFC3339(at) == [sec |-> at \div 2, frac |-> 0]

\* time.RFC3339Nano prints the fraction, without trailing zeros, when there is one
formatRFC3339Nano(at) == [sec |-> at \div 2, frac |-> IF at % 2 = 1 THEN 5 ELSE 0]

\* time.Parse(time.RFC3339, text): the instant a text names
parseRFC3339(text) == 2 * text.sec + (IF text.frac = 5 THEN 1 ELSE 0)

\* the byte order of two timestamp texts: the seconds have a fixed width, and
\* behind them "." sorts before "Z"
TextBefore(a, b) ==
    \/ a.sec < b.sec
    \/ a.sec = b.sec /\ a.frac # 0 /\ b.frac = 0

\* the row memoryBackend.append stores for an Append at `at`
memoryAppend(at, reason) ==
    [Timestamp |-> formatRFC3339(at), Status |-> "UP", Reason |-> reason]

\* the reason Append is called with: the first row of a target is its INIT
ReasonOfAppend(i) == IF i = 1 THEN "INIT" ELSE "POLL"

memoryRows(appends) ==
    [i \in 1..Len(appends) |-> memoryAppend(appends[i], ReasonOfAppend(i))]

\* sqlite.go: the retention used when none is configured, and the number of
\* writes after which old rows are deleted
defaultSQLiteRetentionDays == 5

sqliteCleanupEveryWrites == 100

\* the half seconds of a day
HalfSecondsPerDay == 2 * 24 * 3600

\* sqlite.go: newSQLiteBackend on an empty table; `writes` is the number of
\* rows the process has written for other targets since
newSQLiteBackend(retentionDays, writes) ==
    [rows |-> <<>>,
     retentionDays |-> IF retentionDays <= 0 THEN defaultSQLiteRetentionDays
                       ELSE retentionDays,
     writeCount |-> writes]

\* sqlite.go: cleanupOldLogs: DELETE FROM logs WHERE ts < ?, the bound being
\* the RFC3339Nano text of the instant retentionDays before `at`
cleanupOldLogs(backend, at) ==
    IF backend.retentionDays <= 0 THEN backend
    ELSE LET cutoff == formatRFC3339Nano(at - backend.retentionDays * HalfSecondsPerDay)
         IN  [backend EXCEPT !.rows =
                 SelectSeq(@, LAMBDA row : ~TextBefore(row.Timestamp, cutoff))]

\* sqliteBackend.append: the row is inserted, and every
\* sqliteCleanupEveryWrites-th write of the process deletes the old rows
sqliteAppend(backend, at, reason) ==
    LET inserted == [backend EXCEPT
                        !.rows = Append(@, [Timestamp |-> formatRFC3339Nano(at),
                                            Status |-> "UP", Reason |-> reason]),
                        !.writeCount = @ + 1]
    IN  IF inserted.writeCount % sqliteCleanupEveryWrites = 0
        THEN cleanupOldLogs(inserted, at)
        ELSE inserted

\* the backend after the first n Append calls of `appends`
RECURSIVE sqliteAfter(_, _, _)
sqliteAfter(backend, appends, n) ==
    IF n = 0 THEN backend
    ELSE sqliteAppend(sqliteAfter(backend, appends, n - 1), appends[n], ReasonOfAppend(n))

sqliteRows(backend, appends) == sqliteAfter(backend, appends, Len(appends)).rows

\* the rows of a list in ascending order of their timestamp texts, rows of one
\* text in the order of the list
RECURSIVE SortByTimestamp(_)
SortByTimestamp(rows) ==
    IF rows = <<>> THEN <<>>
    ELSE LET least == CHOOSE i \in 1..Len(rows) :
                          /\ \A j \in 1..Len(rows) :
                                 ~TextBefore(rows[j].Timestamp, rows[i].Timestamp)
                          /\ \A j \in 1..(i - 1) :
                                 TextBefore(rows[i].Timestamp, rows[j].Timestamp)
         IN <<rows[least]>>
            \o SortByTimestamp(SubSeq(rows, 1, least - 1)
                               \o SubSeq(rows, least + 1, Len(rows)))

\* memoryBackend.readSince: the rows whose parsed timestamp is not before the
\* cutoff, sorted by text, and of these the last `limit`
memoryReadSince(rows, since, limit) ==
    LET filtered == SortByTimestamp(
                        SelectSeq(rows, LAMBDA row : ~(parseRFC3339(row.Timestamp) < since)))
    IN IF Len(filtered) > limit
       THEN SubSeq(filtered, Len(filtered) - limit + 1, Len(filtered))
       ELSE filtered

\* sqliteBackend.readSince: WHERE ts >= ? ORDER BY ts ASC LIMIT ?, the cutoff
\* bound as its RFC3339Nano text and compared as text
sqliteReadSince(rows, since, limit) ==
    LET selected == SortByTimestamp(
                        SelectSeq(rows, LAMBDA row :
                            ~TextBefore(row.Timestamp, formatRFC3339Nano(since))))
    IN IF Len(selected) > limit THEN SubSeq(selected, 1, limit) ELSE selected

\* the instants of an Append or a cutoff: the first half seconds of a day
\* and of the day after it
Instants == (0..LastAppendTime) \cup {HalfSecondsPerDay + t : t \in 0..LastAppendTime}

\* the instants of the Append calls of one target, in the order of the calls
AppendTimes ==
    {appends \in UNION {[1..n -> Instants] : n \in 0..MaxAppends} :
        \A i \in 1..(Len(appends) - 1) : appends[i] <= appends[i + 1]}

\* the retention the SQLite backend is configured with: none, and one day
RetentionChoices == {0, 1}

\* the writes the process made before: none, and two short of a cleanup
EarlierWrites == {0, sqliteCleanupEveryWrites - 2}

HistoryInit ==
    /\ AlertStart
    /\ NoDashboard
    /\ notifier = FALSE
    /\ EngineInit({}, 0)
    /\ callArgs \in {<<call>> : call \in [appends : AppendTimes,
                                          since : Instants,
                                          limit : 1..MaxLimit,
                                          retentionDays : RetentionChoices,
                                          writes : EarlierWrites]}
    /\ callResult = <<>>

\* both backends are given the same Append calls and asked the same read-back
CallReadSince ==
    /\ callResult = <<>>
    /\ callResult' = <<[memory |-> memoryReadSince(memoryRows(callArgs[1].appends),
                                                   callArgs[1].since, callArgs[1].limit),
                        sqlite |-> sqliteReadSince(
                                       sqliteRows(newSQLiteBackend(callArgs[1].retentionDays,
                                                                   callArgs[1].writes),
                                                  callArgs[1].appends),
                                       callArgs[1].since, callArgs[1].limit)]>>
    /\ UNCHANGED <<callArgs, restOfState>>

SpecHistory == HistoryInit /\ [][CallReadSince]_vars

-----------------------------------------------------------------------------
(* C40 *)

\* the rows of the Append calls that lie at or after the cutoff, as a backend
\* stored them
AfterCutoff(rows, appends, since) ==
    {i \in 1..Len(rows) : appends[i] >= since}

\* the most recent `limit` of the rows at or after the cutoff, oldest first
MostRecent(rows, appends, since, limit) ==
    LET after == AfterCutoff(rows, appends, since)
        kept == {i \in after : Cardinality({j \in after : j > i}) < limit}
        order == SelectSeq([i \in 1..Len(rows) |-> i], LAMBDA i : i \in kept)
    IN [k \in 1..Len(order) |-> rows[order[k]]]

\* C40: for the same appended rows, cutoff and limit, the in-memory backend
\* and the SQLite backend return the same rows, and both return the most
\* recent `limit` rows at or after the cutoff in ascending time order.
C40_AsStated ==
    callResult # <<>> =>
        LET call == callArgs[1]
            read == callResult[1]
        IN /\ read.memory = read.sqlite
           /\ read.memory = MostRecent(memoryRows(call.appends), call.appends,
                                       call.since, call.limit)

====
